---- MODULE Spec2Model ----
(***************************************************************************)
(* Conversation relay of the finance research chatbot backend:             *)
(* ChatService.sendMessage / streamMessage / getThreadMessages, the line   *)
(* framing loop of streamMessage, and the store they write to.             *)
(*                                                                         *)
(* Text is a sequence of characters, a chunk is a sequence of bytes.  The  *)
(* upstream stream is UTF-8: every character is one byte except EAcute,    *)
(* which is the two bytes <<Lead, Cont>>.                                  *)
(***************************************************************************)
EXTENDS Integers, Sequences, FiniteSets, TLC

\* ---------------------------------------------------------------- bounds
\* Relay requests started in one behaviour.
MaxTurns == 1
\* Records (lines) in one upstream stream body.
MaxLines == 2
\* Store calls that fail in one behaviour.
MaxFaults == 1
\* Latest clock value a store write may stamp.
MaxClock == 2
\* Calls of the memory service (other than sweeps) in one behaviour.
MaxCalls == 2
\* Runs of the retention sweep in one behaviour.
MaxSweeps == 2
\* Largest limit a search or a history read is called with.
MaxLimit == 2
\* Most rows in the message table a history read is applied to.
MaxRows == 3

\* ------------------------------------------------------------- constants
Users == {"u1", "u2"}
\* t1 belongs to u1, t2 to u2, t3 is the id of no thread.
ThreadIds == {"t1", "t2", "t3"}
Procs == {1, 2}

None == <<>>
Some(x) == <<x>>

Lead == "\\xC3"
Cont == "\\xA9"
EAcute == "e'"
Replacement == "\\uFFFD"
NL == "\n"

\* 'data: ' (chat.service line 192) and its length (line 194, slice(6)).
DataPrefix == <<"d", "a", "t", "a", ":", " ">>

\* ------------------------------------------------------------ sequences
RECURSIVE Flatten(_)
Flatten(ss) == IF ss = <<>> THEN <<>> ELSE Head(ss) \o Flatten(Tail(ss))

Last(s) == s[Len(s)]
Front(s) == SubSeq(s, 1, Len(s) - 1)
Reverse(s) == [i \in 1..Len(s) |-> s[Len(s) + 1 - i]]
Take(s, n) == SubSeq(s, 1, IF n < Len(s) THEN n ELSE Len(s))
Drop(s, n) == SubSeq(s, n + 1, Len(s))

\* ------------------------------------------------- stream framing layer
\* Buffer.toString(): UTF-8 decoding of ONE chunk.  A lead byte whose
\* continuation byte is not in the same chunk, and a continuation byte with
\* no lead byte before it, each decode to U+FFFD.
RECURSIVE toString(_)
toString(bytes) ==
  IF bytes = <<>> THEN <<>>
  ELSE IF Head(bytes) = Lead /\ Len(bytes) >= 2 /\ bytes[2] = Cont
       THEN <<EAcute>> \o toString(Drop(bytes, 2))
  ELSE IF Head(bytes) \in {Lead, Cont}
       THEN <<Replacement>> \o toString(Tail(bytes))
  ELSE <<Head(bytes)>> \o toString(Tail(bytes))

\* String.prototype.split('\n'): always at least one piece.
RECURSIVE split(_)
split(s) ==
  IF \A i \in 1..Len(s) : s[i] # NL THEN <<s>>
  ELSE LET i == CHOOSE k \in 1..Len(s) : s[k] = NL /\ \A j \in 1..(k - 1) : s[j] # NL
       IN  <<SubSeq(s, 1, i - 1)>> \o split(Drop(s, i))

startsWith(line, prefix) ==
  Len(line) >= Len(prefix) /\ SubSeq(line, 1, Len(prefix)) = prefix

slice(line, n) == Drop(line, n)

\* The characters a JSON string body is made of in this model.
TextChars == {"x", "y", EAcute, Replacement}
IsText(s) == \A i \in 1..Len(s) : s[i] \in TextChars

\* JSON.parse of the payload of a line, in the model's one-letter syntax:
\*   t<text>  {"type":"token","content":<text>}
\*   k<text>  {"type":"thinking","data":<text>}
\*   s<text>  {"type":"source","data":{"url":<text>}}
\*   c        {"type":"complete"}
\*   u<text>  {"type":<a type the switch does not know>}
\* Anything else does not parse (JSON.parse throws).
ParseError == [type |-> "SyntaxError", content |-> None, data |-> None]

JSONparse(payload) ==
  IF payload = <<>> THEN ParseError
  ELSE LET tag  == Head(payload)
           body == Tail(payload)
       IN  IF ~IsText(body) THEN ParseError
           ELSE IF tag = "t" THEN [type |-> "token", content |-> Some(body), data |-> None]
           ELSE IF tag = "k" THEN [type |-> "thinking", content |-> None, data |-> Some(body)]
           ELSE IF tag = "s" THEN [type |-> "source", content |-> None, data |-> Some(body)]
           ELSE IF tag = "c" /\ body = <<>>
                THEN [type |-> "complete", content |-> None, data |-> None]
           ELSE IF tag = "u" THEN [type |-> "unknown", content |-> None, data |-> None]
           ELSE ParseError

\* JSON.stringify of a text value, and of the empty object.
JSONstringify(text) == <<"\"">> \o text \o <<"\"">>
EmptyObject == <<"{", "}">>

\* A downstream event (StreamingResponse).  messageId 0 is "no messageId";
\* carries says which message a complete event's data holds; error is the
\* error.message an error event's data holds.
Event(type, content, data, messageId, carries, error) ==
  [type |-> type, content |-> content, data |-> data,
   messageId |-> messageId, carries |-> carries, error |-> error]

TokenEvent(text) == Event("token", Some(text), None, 0, "none", "")
ThinkingEvent(d) == Event("thinking", None, Some(d), 0, "none", "")
SourceEvent(d) == Event("source", None, Some(d), 0, "none", "")

\* The accumulators of streamMessage's loop (lines 177-184) and the events
\* yielded so far by the loop.
Acc(buffer, assistantContent, thinkingTrace, sources, out) ==
  [buffer |-> buffer, assistantContent |-> assistantContent,
   thinkingTrace |-> thinkingTrace, sources |-> sources, out |-> out]

EmptyAcc == Acc(<<>>, <<>>, None, <<>>, <<>>)

\* Mutant: the thinking snapshots pile up instead of replacing one another.
thinkingAccumulated(old, d) == IF old = None THEN Some(d) ELSE Some(old[1] \o d)

\* The accumulation of a thinking event: overwrite.
thinkingAfter(old, d) == Some(d)

\* Mutant: a line the switch has no case for is forwarded all the same.
processLineForwardAll(acc, line) ==
  IF ~startsWith(line, DataPrefix) THEN acc
  ELSE LET data == JSONparse(slice(line, Len(DataPrefix)))
       IN  CASE data.type = "token" ->
                  [acc EXCEPT !.assistantContent = @ \o data.content[1],
                              !.out = Append(@, TokenEvent(data.content[1]))]
             [] data.type = "thinking" ->
                  [acc EXCEPT !.thinkingTrace = thinkingAfter(@, data.data[1]),
                              !.out = Append(@, ThinkingEvent(data.data[1]))]
             [] data.type = "source" ->
                  [acc EXCEPT !.sources = Append(@, data.data[1]),
                              !.out = Append(@, SourceEvent(data.data[1]))]
             [] OTHER -> [acc EXCEPT !.out = Append(@, TokenEvent(<<>>))]

\* Mutant: a record of any other type is passed on under its own type.
processLineForwardTyped(acc, line) ==
  IF ~startsWith(line, DataPrefix) THEN acc
  ELSE LET data == JSONparse(slice(line, Len(DataPrefix)))
       IN  CASE data.type = "token" ->
                  [acc EXCEPT !.assistantContent = @ \o data.content[1],
                              !.out = Append(@, TokenEvent(data.content[1]))]
             [] data.type = "thinking" ->
                  [acc EXCEPT !.thinkingTrace = thinkingAfter(@, data.data[1]),
                              !.out = Append(@, ThinkingEvent(data.data[1]))]
             [] data.type = "source" ->
                  [acc EXCEPT !.sources = Append(@, data.data[1]),
                              !.out = Append(@, SourceEvent(data.data[1]))]
             [] data.type \in {"complete", "SyntaxError"} -> acc
             [] OTHER -> [acc EXCEPT !.out = Append(@, Event(data.type, None, None, 0, "none", ""))]

\* One line of the inner loop (lines 191-229).
processLine(acc, line) ==
  IF ~startsWith(line, DataPrefix) THEN acc
  ELSE LET data == JSONparse(slice(line, Len(DataPrefix)))
       IN  CASE data.type = "token" ->
                  [acc EXCEPT !.assistantContent = @ \o data.content[1],
                              !.out = Append(@, TokenEvent(data.content[1]))]
             [] data.type = "thinking" ->
                  [acc EXCEPT !.thinkingTrace = thinkingAfter(@, data.data[1]),
                              !.out = Append(@, ThinkingEvent(data.data[1]))]
             [] data.type = "source" ->
                  [acc EXCEPT !.sources = Append(@, data.data[1]),
                              !.out = Append(@, SourceEvent(data.data[1]))]
             [] OTHER -> acc

RECURSIVE processLines(_, _)
processLines(acc, lines) ==
  IF lines = <<>> THEN acc
  ELSE processLines(processLine(acc, Head(lines)), Tail(lines))

\* One iteration of `for await (const chunk of stream)` (lines 186-230).
processChunk(acc, chunk) ==
  LET text  == acc.buffer \o toString(chunk)
      lines == split(text)
  IN  processLines([acc EXCEPT !.buffer = Last(lines)], Front(lines))


\* ------------------------------------------------------------ the store
VARIABLES
  threads,    \* thread id -> [userId, updatedAt]           (prisma.thread)
  messages,   \* the message rows, in insertion order       (prisma.message)
  nextId,     \* the next message id
  now,        \* the clock the store and new Date() read
  faults,     \* store calls that have failed so far
  started,    \* relay requests started so far
  proc,       \* per request slot: the handler's locals and position
  memories,   \* the long-term memory rows, in insertion order (prisma.memory)
  redis,      \* key -> the entry the short-term cache holds    (redisClient)
  mproc       \* the memory service's caller: its call and the running sweep

memoryVars == <<memories, redis, mproc>>
vars == <<threads, messages, nextId, now, faults, started, proc, memories, redis, mproc>>

\* row.metadata is JSON text; the model keeps the object it encodes.
Meta(error, errorMessage, streaming) ==
  [error |-> error, errorMessage |-> errorMessage, streaming |-> streaming]
EmptyMeta == Meta(FALSE, "", FALSE)

Message(id, threadId, role, content, thinkingTrace, metadata, sources, createdAt) ==
  [id |-> id, threadId |-> threadId, role |-> role, content |-> content,
   thinkingTrace |-> thinkingTrace, metadata |-> metadata, sources |-> sources,
   createdAt |-> createdAt]

\* The one question text the client sends, and the two apology texts.
Question == <<"q">>
SendApology == <<"I apologize, but I encountered an error while processing your request. Please try again.">>
StreamApology == <<"I apologize, but I encountered an error while processing your request.">>

\* error.message of a rejected axios call, and of a rejected store call.
UpstreamErrors == {"Request failed with status code 500", "timeout of 300000ms exceeded", "connect ECONNREFUSED"}
StoreErrorMessage == "PrismaClientKnownRequestError"

\* The instants a store write (createdAt default now(), new Date()) may
\* stamp: the clock does not go back and may stand still between two calls.
Stamps == {t \in {now, now + 1} : t <= MaxClock}

\* Mutant: an insert replaces the newest row when that row is of the same
\* thread and role (a write keyed on thread and role instead of a new id).
createOrReplace(rows, row) ==
  IF rows # <<>> /\ Last(rows).threadId = row.threadId /\ Last(rows).role = row.role
  THEN Append(Front(rows), row)
  ELSE Append(rows, row)

\* prisma.message.create: the table after the insert.
create(rows, row) == Append(rows, row)

\* prisma.thread.update({where: {id}, data: {updatedAt}}).
touchThread(ths, threadId, at) == [ths EXCEPT ![threadId].updatedAt = at]

\* Mutant: the lookup filters on the thread id alone.
validateThreadExists(threadId, userId) ==
  \E t \in DOMAIN threads : t = threadId

\* ThreadsService.validateThreadOwnership: findFirst({id, userId}) found a row.
validateThreadOwnership(threadId, userId) ==
  \E t \in DOMAIN threads : t = threadId /\ threads[t].userId = userId

ThreadMessages(rows, threadId) == SelectSeq(rows, LAMBDA m : m.threadId = threadId)

\* The orders findMany may return for orderBy createdAt: every arrangement
\* of the rows that is sorted on createdAt (rows with equal createdAt in any
\* order).  desc = TRUE for 'desc'.
Orderings(rows, desc) ==
  LET n == Len(rows)
      Perms == {f \in [1..n -> 1..n] : \A i, j \in 1..n : i # j => f[i] # f[j]}
      Sorted(f) == \A i \in 1..(n - 1) :
                      IF desc THEN rows[f[i]].createdAt >= rows[f[i + 1]].createdAt
                              ELSE rows[f[i]].createdAt <= rows[f[i + 1]].createdAt
  IN  {[i \in 1..n |-> rows[f[i]]] : f \in {g \in Perms : Sorted(g)}}

\* getConversationHistory's default limit.
HistoryLimit == 10

\* Mutant: the history read without the descending order, which takes the
\* oldest rows of the thread.
getOldestMessages(rows, threadId, limit) ==
  {Take(o, limit) : o \in Orderings(ThreadMessages(rows, threadId), FALSE)}

\* getConversationHistory(threadId, limit): the results it may return.
getConversationHistory(rows, threadId, limit) ==
  {Reverse(Take(o, limit)) : o \in Orderings(ThreadMessages(rows, threadId), TRUE)}

\* getThreadMessages' default page size.
PageLimit == 50

\* --------------------------------------------------------- the upstream
\* The records the agent service may write to the stream body.
LineKinds == {"tokenX", "tokenE", "thinking", "thinking2", "source", "complete",
              "unknownType", "badJson", "noPrefix"}

LineText(kind) ==
  CASE kind = "tokenX"      -> DataPrefix \o <<"t", "x">>
    [] kind = "tokenE"      -> DataPrefix \o <<"t", EAcute>>
    [] kind = "thinking"    -> DataPrefix \o <<"k", "y">>
    [] kind = "thinking2"   -> DataPrefix \o <<"k", "x", "y">>
    [] kind = "source"      -> DataPrefix \o <<"s", "x">>
    [] kind = "complete"    -> DataPrefix \o <<"c">>
    [] kind = "unknownType" -> DataPrefix \o <<"u">>
    [] kind = "badJson"     -> DataPrefix \o <<"{">>
    [] kind = "noPrefix"    -> <<":">>

\* UTF-8 encoding of text.
RECURSIVE encode(_)
encode(text) ==
  IF text = <<>> THEN <<>>
  ELSE (IF Head(text) = EAcute THEN <<Lead, Cont>> ELSE <<Head(text)>>) \o encode(Tail(text))

\* A stream body: newline-terminated records, then possibly a last record
\* the upstream did not terminate.
Body(lines, tail) ==
  [lines |-> lines, tail |-> tail]
BodyBytes(b) ==
  encode(Flatten([i \in 1..Len(b.lines) |-> LineText(b.lines[i]) \o <<NL>>])
         \o (IF b.tail = None THEN <<>> ELSE LineText(b.tail[1])))

\* The scenario of the specification: token, token, source, complete.
ScenarioBody == Body(<<"tokenX", "tokenE", "source", "complete">>, None)

\* A long answer: reasoning snapshots, text and citations interleaved.
LongBody ==
  Body(<<"thinking", "tokenX", "thinking2", "tokenE", "source", "source", "complete">>, None)

\* Up to MaxLines records, the last of which may lack its newline.
Records(max) == UNION {[1..n -> LineKinds] : n \in 0..max}
Bodies ==
  {Body(ls, None) : ls \in Records(MaxLines)}
  \cup {Body(ls, Some("tokenX")) : ls \in Records(MaxLines - 1)}
  \cup {ScenarioBody, LongBody}

\* The bodies the requests of the relay specification are answered with.
RelayBodies ==
  {Body(<<>>, None), Body(<<"tokenE">>, None)}

\* The JSON bodies the agent service may answer a blocking call with.
AgentResponse(content, thinkingTrace, hasSources, sources) ==
  [content |-> content, thinkingTrace |-> thinkingTrace,
   hasSources |-> hasSources, sources |-> sources]
AgentResponses ==
  {AgentResponse(<<"x">>, None, FALSE, <<>>),
   AgentResponse(<<"x", EAcute>>, Some(<<"y">>), TRUE, <<<<"x">>>>)}

\* ---------------------------------------------------- memory service
\* The memory service counts time in hours: ttl = 3600 seconds is one hour.
HoursPerDay == 24
RetentionDays == 30
DefaultTtl == 1

\* The time zone of the process: its offset to UTC (hours) before and from
\* the instant of its one daylight-saving change.  UTC has none.
Zone(before, after, changeAt) == [before |-> before, after |-> after, changeAt |-> changeAt]
DstChangeAt == 0 - 360
Zones == {Zone(0, 0, DstChangeAt), Zone(0 - 5, 0 - 4, DstChangeAt), Zone(0 - 4, 0 - 5, DstChangeAt)}
utcOffset(tz, t) == IF t < tz.changeAt THEN tz.before ELSE tz.after

\* date.setDate(date.getDate() + days): the instant whose local clock time
\* is that of date, days calendar days away.
setDate(date, tz, days) ==
  LET local == date + utcOffset(tz, date) + days * HoursPerDay
  IN  CHOOSE u \in (local - HoursPerDay)..(local + HoursPerDay) :
        u + utcOffset(tz, u) = local

MemoryTypes == {"CONVERSATION", "FACT", "INSIGHT", "DOCUMENT"}
Memory(id, userId, type, content, createdAt) ==
  [id |-> id, userId |-> userId, type |-> type, content |-> content,
   createdAt |-> createdAt]

\* The where clause of the sweep's deleteMany (lines 131-136).
expiredAnyType(m, cutoffDate) == m.createdAt < cutoffDate
expired(m, cutoffDate) == m.createdAt < cutoffDate /\ m.type = "CONVERSATION"

\* String matching of `contains` with mode 'insensitive'.
toLowerCase(c) == IF c = "A" THEN "a" ELSE IF c = "B" THEN "b" ELSE c
lower(text) == [i \in 1..Len(text) |-> toLowerCase(text[i])]
contains(text, q) ==
  \E i \in 1..(Len(text) - Len(q) + 1) : SubSeq(text, i, i + Len(q) - 1) = q
containsSensitive(content, query) == contains(content, query)
containsInsensitive(content, query) == contains(lower(content), lower(query))

\* The where clause of searchMemories' findMany (lines 86-92).
matchesAnyUser(m, userId, query) == containsInsensitive(m.content, query)
matches(m, userId, query) ==
  m.userId = userId /\ containsInsensitive(m.content, query)

\* searchMemories' findMany: the results it may return.
findMemories(rows, userId, query, limit) ==
  {Take(o, limit) :
     o \in Orderings(SelectSeq(rows, LAMBDA m : matches(m, userId, query)), TRUE)}

\* The values the callers cache, and their JSON text.
JsNull == [kind |-> "null", text |-> <<>>]
JsString(text) == [kind |-> "string", text |-> text]
NullLiteral == <<"n", "u", "l", "l">>
JSONstringifyValue(v) == IF v.kind = "null" THEN NullLiteral ELSE JSONstringify(v.text)
JSONparseValue(s) ==
  IF s = NullLiteral THEN JsNull
  ELSE IF Len(s) >= 2 /\ Head(s) = "\"" /\ Last(s) = "\""
          /\ IsText(SubSeq(s, 2, Len(s) - 1))
       THEN JsString(SubSeq(s, 2, Len(s) - 1))
  ELSE [kind |-> "SyntaxError", text |-> <<>>]

\* A cache entry; GET answers nil for a key that is not set or has expired.
Entry(payload, expiresAt) == [payload |-> payload, expiresAt |-> expiresAt]
redisGet(cache, key, at) ==
  IF cache[key] = None \/ cache[key][1].expiresAt <= at THEN None
  ELSE Some(cache[key][1].payload)

Keys == {"k1", "k2"}
CacheData == {JsString(<<"x">>), JsNull}
Contents == {<<"a", "B">>, <<"b">>}
Queries == {<<"A">>, <<"b">>, <<>>}

\* The caller of the memory service (its last call and what it got back) and
\* the sweep in progress.  tz is the time zone of the process.  during holds
\* the ids of the records created while the sweep was running; prevStart and
\* prevOk describe the sweep before the current one.
IdleCaller ==
  [tz |-> Zone(0, 0, DstChangeAt), calls |-> 0, op |-> "none", outcome |-> "none",
   key |-> "none", value |-> None, userId |-> "none", query |-> <<>>, limit |-> 0,
   record |-> None, rows |-> <<>>, storeFailed |-> FALSE, before |-> <<>>, at |-> 0,
   sweepPc |-> "idle", sweeps |-> 0, cutoffDate |-> 0, sweepStart |-> 0,
   sweepBefore |-> <<>>, sweepFailed |-> FALSE, deleted |-> <<>>, during |-> {},
   prevStart |-> 0, prevOk |-> FALSE, ids |-> 1]

\* The memory service is not in use.
MemoryAtRest ==
  /\ memories = <<>>
  /\ redis = [k \in Keys |-> None]
  /\ mproc = IdleCaller

\* ------------------------------------------------------- request slots
Ops == {"sendMessage", "streamMessage", "getThreadMessages"}

\* Who calls, on which thread: the owner of t1 on t1, on u2's thread and on
\* the id of no thread, and u2 on t1.  (u2's calls on its own thread t2
\* mirror u1's on t1.)
Callers == {c \in Users \X ThreadIds : c[1] = "u1" \/ c[2] = "t1"}

IdleProc ==
  [op |-> "none", userId |-> "none", threadId |-> "none", pc |-> "idle",
   userMessage |-> None, history |-> <<>>, posts |-> 0, error |-> "",
   body |-> Body(<<>>, None), bytes |-> <<>>, received |-> 0,
   buffer |-> <<>>, assistantContent |-> <<>>, thinkingTrace |-> None, sources |-> <<>>,
   events |-> <<>>, created |-> <<>>, touches |-> 0, storeErrors |-> <<>>,
   disconnectedAt |-> None, timeoutArmed |-> FALSE,
   agentResponse |-> None, assistantMessage |-> None, limit |-> 0,
   page |-> 0, result |-> None, forwarded |-> <<>>, observer |-> "open",
   outcome |-> "none"]

\* The conversation the seed script leaves in the sample thread: one USER
\* and one ASSISTANT message written by a single createMany.
SeedMessages ==
  <<Message(1, "t1", "USER", <<"hello">>, None, EmptyMeta, <<>>, 0),
    Message(2, "t1", "ASSISTANT", <<"hi">>, None, EmptyMeta, <<>>, 0)>>

\* The store holds u1's thread t1 and u2's thread t2; t1 is empty or holds
\* the seeded conversation.
Init ==
  /\ threads = [t \in {"t1", "t2"} |->
                  [userId |-> IF t = "t1" THEN "u1" ELSE "u2", updatedAt |-> 0]]
  /\ messages \in {<<>>, SeedMessages}
  /\ nextId = Len(messages) + 1
  /\ now = 0
  /\ faults = 0
  /\ started = 0
  /\ proc = [p \in Procs |-> IdleProc]
  /\ MemoryAtRest


\* A handler ends: it returned (or its generator finished), or it threw.
Ended(pr, outcome) == [pr EXCEPT !.pc = "done", !.outcome = outcome]

\* A store call of the handler rejected.
Rejected(pr, call) == [pr EXCEPT !.storeErrors = Append(@, call)]

\* ---------------------------------------------- controller entry points
\* A request arrives (ChatController.sendMessage / streamMessage /
\* getThreadMessages hand the authenticated user id and the body's thread
\* id to the service).  A slot whose handler has ended is reused.
Request(p) ==
  /\ proc[p].pc \in {"idle", "done"}
  /\ started < MaxTurns
  /\ \E op \in Ops, c \in Callers :
       proc' = [proc EXCEPT ![p] =
                  [IdleProc EXCEPT !.op = op, !.userId = c[1], !.threadId = c[2],
                                   !.pc = "validate"]]
  /\ started' = started + 1
  /\ UNCHANGED <<threads, messages, nextId, now, faults>>
  /\ UNCHANGED memoryVars

\* ------------------------------------------------ ChatService.sendMessage
\* Mutant: the owner's request goes to the upstream call without the user
\* message having been saved.
SendValidateThenPost(p) ==
  /\ proc[p].op = "sendMessage" /\ proc[p].pc = "validate"
  /\ LET isOwner == validateThreadOwnership(proc[p].threadId, proc[p].userId)
     IN  proc' = [proc EXCEPT ![p] =
                    IF ~isOwner THEN Ended(@, "NotFoundException")
                    ELSE [@ EXCEPT !.pc = "post"]]
  /\ UNCHANGED <<threads, messages, nextId, now, faults, started>>
  /\ UNCHANGED memoryVars

\* lines 30-34
SendValidate(p) ==
  /\ proc[p].op = "sendMessage" /\ proc[p].pc = "validate"
  /\ LET isOwner == validateThreadOwnership(proc[p].threadId, proc[p].userId)
     IN  proc' = [proc EXCEPT ![p] =
                    IF ~isOwner THEN Ended(@, "NotFoundException")
                    ELSE [@ EXCEPT !.pc = "saveUser"]]
  /\ UNCHANGED <<threads, messages, nextId, now, faults, started>>
  /\ UNCHANGED memoryVars

\* lines 36-44
SendSaveUser(p) ==
  /\ proc[p].op = "sendMessage" /\ proc[p].pc = "saveUser"
  /\ \/ \E at \in Stamps :
          LET row == Message(nextId, proc[p].threadId, "USER", Question, None,
                             EmptyMeta, <<>>, at)
          IN  /\ messages' = create(messages, row)
              /\ nextId' = nextId + 1
              /\ now' = at
              /\ proc' = [proc EXCEPT ![p].userMessage = Some(row),
                                      ![p].created = Append(@, row.id),
                                      ![p].pc = "history"]
              /\ UNCHANGED <<threads, faults, started>>
     \/ /\ faults < MaxFaults
        /\ faults' = faults + 1
        /\ proc' = [proc EXCEPT ![p] = Ended(Rejected(@, "message.create"), "StoreError")]
        /\ UNCHANGED <<threads, messages, nextId, now, started>>
  /\ UNCHANGED memoryVars

\* lines 46-56
SendHistory(p) ==
  /\ proc[p].op = "sendMessage" /\ proc[p].pc = "history"
  /\ \/ /\ \E h \in getConversationHistory(messages, proc[p].threadId, HistoryLimit) :
             proc' = [proc EXCEPT ![p].history = h, ![p].pc = "post"]
        /\ UNCHANGED faults
     \/ /\ faults < MaxFaults
        /\ faults' = faults + 1
        /\ proc' = [proc EXCEPT ![p] = Ended(Rejected(@, "message.findMany"), "StoreError")]
  /\ UNCHANGED <<threads, messages, nextId, now, started>>
  /\ UNCHANGED memoryVars

\* lines 58-71: axios.post resolves with the agent's answer or rejects
\* (non-2xx status, timeout, transport error); a rejection enters the catch.
SendPost(p) ==
  /\ proc[p].op = "sendMessage" /\ proc[p].pc = "post"
  /\ \/ \E r \in AgentResponses :
          proc' = [proc EXCEPT ![p].posts = @ + 1, ![p].agentResponse = Some(r),
                               ![p].pc = "saveAssistant"]
     \/ \E e \in UpstreamErrors :
          proc' = [proc EXCEPT ![p].posts = @ + 1, ![p].error = e, ![p].pc = "catch"]
  /\ UNCHANGED <<threads, messages, nextId, now, faults, started>>
  /\ UNCHANGED memoryVars

\* agentResponse.sources?.map(...) || []  (lines 81-89)
sendSources(r) == IF r.hasSources THEN [i \in 1..Len(r.sources) |-> [url |-> r.sources[i]]]
                  ELSE <<>>

\* lines 73-94; a rejected create enters the catch.
SendSaveAssistant(p) ==
  /\ proc[p].op = "sendMessage" /\ proc[p].pc = "saveAssistant"
  /\ \/ \E at \in Stamps :
          LET r   == proc[p].agentResponse[1]
              row == Message(nextId, proc[p].threadId, "ASSISTANT", r.content,
                             r.thinkingTrace, EmptyMeta, sendSources(r), at)
          IN  /\ messages' = create(messages, row)
              /\ nextId' = nextId + 1
              /\ now' = at
              /\ proc' = [proc EXCEPT ![p].assistantMessage = Some(row),
                                      ![p].created = Append(@, row.id),
                                      ![p].pc = "touch"]
              /\ UNCHANGED <<threads, faults, started>>
     \/ /\ faults < MaxFaults
        /\ faults' = faults + 1
        /\ proc' = [proc EXCEPT ![p] =
                      [Rejected(@, "message.create") EXCEPT !.error = StoreErrorMessage, !.pc = "catch"]]
        /\ UNCHANGED <<threads, messages, nextId, now, started>>
  /\ UNCHANGED memoryVars

\* lines 96-105; a rejected update enters the catch.
SendTouch(p) ==
  /\ proc[p].op = "sendMessage" /\ proc[p].pc = "touch"
  /\ \/ \E at \in Stamps :
          /\ threads' = touchThread(threads, proc[p].threadId, at)
          /\ now' = at
          /\ proc' = [proc EXCEPT ![p] =
                        Ended([@ EXCEPT !.touches = @ + 1], "returned")]
          /\ UNCHANGED <<messages, nextId, faults, started>>
     \/ /\ faults < MaxFaults
        /\ faults' = faults + 1
        /\ proc' = [proc EXCEPT ![p] =
                      [Rejected(@, "thread.update") EXCEPT !.error = StoreErrorMessage, !.pc = "catch"]]
        /\ UNCHANGED <<threads, messages, nextId, now, started>>
  /\ UNCHANGED memoryVars

\* Mutant: the catch stores the sources of the agent's answer, when it has
\* one, with the apology message.
SendCatchWithSources(p) ==
  /\ proc[p].op = "sendMessage" /\ proc[p].pc = "catch"
  /\ \/ \E at \in Stamps :
          LET row == Message(nextId, proc[p].threadId, "ASSISTANT", SendApology, None,
                             Meta(TRUE, proc[p].error, FALSE),
                             IF proc[p].agentResponse = None THEN <<>>
                             ELSE sendSources(proc[p].agentResponse[1]), at)
          IN  /\ messages' = create(messages, row)
              /\ nextId' = nextId + 1
              /\ now' = at
              /\ proc' = [proc EXCEPT ![p] =
                            Ended([@ EXCEPT !.created = Append(@, row.id)],
                                  "HttpException500")]
              /\ UNCHANGED <<threads, faults, started>>
     \/ /\ faults < MaxFaults
        /\ faults' = faults + 1
        /\ proc' = [proc EXCEPT ![p] = Ended(Rejected(@, "message.create"), "StoreError")]
        /\ UNCHANGED <<threads, messages, nextId, now, started>>
  /\ UNCHANGED memoryVars

\* lines 107-127
SendCatch(p) ==
  /\ proc[p].op = "sendMessage" /\ proc[p].pc = "catch"
  /\ \/ \E at \in Stamps :
          LET row == Message(nextId, proc[p].threadId, "ASSISTANT", SendApology, None,
                             Meta(TRUE, proc[p].error, FALSE), <<>>, at)
          IN  /\ messages' = create(messages, row)
              /\ nextId' = nextId + 1
              /\ now' = at
              /\ proc' = [proc EXCEPT ![p] =
                            Ended([@ EXCEPT !.created = Append(@, row.id)],
                                  "HttpException500")]
              /\ UNCHANGED <<threads, faults, started>>
     \/ /\ faults < MaxFaults
        /\ faults' = faults + 1
        /\ proc' = [proc EXCEPT ![p] = Ended(Rejected(@, "message.create"), "StoreError")]
        /\ UNCHANGED <<threads, messages, nextId, now, started>>
  /\ UNCHANGED memoryVars


\* ---------------------------------------------- ChatService.streamMessage
\* The generator yields ev: the controller's loop hands it to the client
\* before it asks the generator for the next one.
Yield(pr, ev) == [pr EXCEPT !.events = Append(@, ev)]

\* The catch block (lines 267-275): yield the error event; the generator
\* then finishes.
StreamCatch(pr, errorMessage) ==
  Ended(Yield([pr EXCEPT !.error = errorMessage],
              Event("error", Some(StreamApology), None, 0, "none", errorMessage)),
        "returned")

\* lines 133-137: the generator throws, it has yielded nothing.
StreamValidate(p) ==
  /\ proc[p].op = "streamMessage" /\ proc[p].pc = "validate"
  /\ LET isOwner == validateThreadOwnership(proc[p].threadId, proc[p].userId)
     IN  proc' = [proc EXCEPT ![p] =
                    IF ~isOwner THEN Ended(@, "NotFoundException")
                    ELSE [@ EXCEPT !.pc = "saveUser"]]
  /\ UNCHANGED <<threads, messages, nextId, now, faults, started>>
  /\ UNCHANGED memoryVars

\* Mutant: the user message goes to the caller without having been written.
StreamSkipSaveUser(p) ==
  /\ proc[p].op = "streamMessage" /\ proc[p].pc = "saveUser"
  /\ \E at \in Stamps :
       LET row == Message(nextId, proc[p].threadId, "USER", Question, None,
                          EmptyMeta, <<>>, at)
       IN  proc' = [proc EXCEPT ![p].userMessage = Some(row), ![p].pc = "yieldUser"]
  /\ UNCHANGED <<threads, messages, nextId, now, faults, started>>
  /\ UNCHANGED memoryVars

\* lines 139-147: outside the try, a rejected create makes the generator
\* throw.
StreamSaveUser(p) ==
  /\ proc[p].op = "streamMessage" /\ proc[p].pc = "saveUser"
  /\ \/ \E at \in Stamps :
          LET row == Message(nextId, proc[p].threadId, "USER", Question, None,
                             EmptyMeta, <<>>, at)
          IN  /\ messages' = create(messages, row)
              /\ nextId' = nextId + 1
              /\ now' = at
              /\ proc' = [proc EXCEPT ![p].userMessage = Some(row),
                                      ![p].created = Append(@, row.id),
                                      ![p].pc = "yieldUser"]
              /\ UNCHANGED <<threads, faults, started>>
     \/ /\ faults < MaxFaults
        /\ faults' = faults + 1
        /\ proc' = [proc EXCEPT ![p] = Ended(Rejected(@, "message.create"), "StoreError")]
        /\ UNCHANGED <<threads, messages, nextId, now, started>>
  /\ UNCHANGED memoryVars

\* lines 149-153: the yield of the user message.
StreamYieldUser(p) ==
  /\ proc[p].op = "streamMessage" /\ proc[p].pc = "yieldUser"
  /\ proc' = [proc EXCEPT ![p] =
                Yield([@ EXCEPT !.pc = "history"],
                      Event("complete", None, None, proc[p].userMessage[1].id,
                            "userMessage", ""))]
  /\ UNCHANGED <<threads, messages, nextId, now, faults, started>>
  /\ UNCHANGED memoryVars

\* lines 155-164: outside the try, a rejected read makes the generator throw.
StreamHistory(p) ==
  /\ proc[p].op = "streamMessage" /\ proc[p].pc = "history"
  /\ \/ /\ \E h \in getConversationHistory(messages, proc[p].threadId, HistoryLimit) :
             proc' = [proc EXCEPT ![p].history = h, ![p].pc = "post"]
        /\ UNCHANGED faults
     \/ /\ faults < MaxFaults
        /\ faults' = faults + 1
        /\ proc' = [proc EXCEPT ![p] = Ended(Rejected(@, "message.findMany"), "StoreError")]
  /\ UNCHANGED <<threads, messages, nextId, now, started>>
  /\ UNCHANGED memoryVars

\* lines 166-184: axios.post with responseType 'stream' resolves when the
\* response head is in (the body follows in chunks) or rejects.
StreamPost(p, bodies) ==
  /\ proc[p].op = "streamMessage" /\ proc[p].pc = "post"
  /\ \/ \E b \in bodies :
          proc' = [proc EXCEPT ![p].posts = @ + 1, ![p].body = b,
                               ![p].bytes = BodyBytes(b), ![p].received = 0,
                               ![p].buffer = <<>>, ![p].assistantContent = <<>>,
                               ![p].thinkingTrace = None, ![p].sources = <<>>,
                               ![p].pc = "read"]
     \/ \E e \in UpstreamErrors :
          proc' = [proc EXCEPT ![p] = StreamCatch([@ EXCEPT !.posts = @ + 1], e)]
  /\ UNCHANGED <<threads, messages, nextId, now, faults, started>>
  /\ UNCHANGED memoryVars

\* Mutant: when the transport fails the loop is left as if the body had
\* ended, and what was accumulated is persisted.
StreamReadPersistPartial(p) ==
  /\ proc[p].op = "streamMessage" /\ proc[p].pc = "read"
  /\ LET bytes == proc[p].bytes
         left  == Len(bytes) - proc[p].received
     IN  \/ \E n \in 1..left :
              LET chunk == SubSeq(bytes, proc[p].received + 1, proc[p].received + n)
                  acc   == processChunk(Acc(proc[p].buffer, proc[p].assistantContent,
                                            proc[p].thinkingTrace, proc[p].sources, <<>>),
                                        chunk)
              IN  proc' = [proc EXCEPT ![p].received = @ + n,
                                       ![p].buffer = acc.buffer,
                                       ![p].assistantContent = acc.assistantContent,
                                       ![p].thinkingTrace = acc.thinkingTrace,
                                       ![p].sources = acc.sources,
                                       ![p].events = @ \o acc.out]
         \/ \E e \in {"aborted"} :
              proc' = [proc EXCEPT ![p].error = e, ![p].pc = "saveAssistant"]
         \/ /\ left = 0
            /\ proc' = [proc EXCEPT ![p].pc = "saveAssistant"]
  /\ UNCHANGED <<threads, messages, nextId, now, faults, started>>
  /\ UNCHANGED memoryVars

\* Mutant: the loop is left as soon as a chunk brought a complete line.
StreamReadUntilComplete(p) ==
  /\ proc[p].op = "streamMessage" /\ proc[p].pc = "read"
  /\ LET bytes == proc[p].bytes
         left  == Len(bytes) - proc[p].received
     IN  \/ \E n \in 1..left :
              LET chunk == SubSeq(bytes, proc[p].received + 1, proc[p].received + n)
                  acc   == processChunk(Acc(proc[p].buffer, proc[p].assistantContent,
                                            proc[p].thinkingTrace, proc[p].sources, <<>>),
                                        chunk)
                  lines == Front(split(proc[p].buffer \o toString(chunk)))
                  sawComplete ==
                    \E i \in 1..Len(lines) :
                      /\ startsWith(lines[i], DataPrefix)
                      /\ JSONparse(slice(lines[i], Len(DataPrefix))).type = "complete"
              IN  proc' = [proc EXCEPT ![p].received = @ + n,
                                       ![p].buffer = acc.buffer,
                                       ![p].assistantContent = acc.assistantContent,
                                       ![p].thinkingTrace = acc.thinkingTrace,
                                       ![p].sources = acc.sources,
                                       ![p].events = @ \o acc.out,
                                       ![p].pc = IF sawComplete THEN "saveAssistant" ELSE "read"]
         \/ \E e \in {"aborted"} :
              proc' = [proc EXCEPT ![p] = StreamCatch(@, e)]
         \/ /\ left = 0
            /\ proc' = [proc EXCEPT ![p].pc = "saveAssistant"]
  /\ UNCHANGED <<threads, messages, nextId, now, faults, started>>
  /\ UNCHANGED memoryVars

\* Mutant: when the body ends, what is left in the line buffer is processed
\* as a last line.
StreamReadFlushTail(p) ==
  /\ proc[p].op = "streamMessage" /\ proc[p].pc = "read"
  /\ LET bytes == proc[p].bytes
         left  == Len(bytes) - proc[p].received
     IN  \/ \E n \in 1..left :
              LET chunk == SubSeq(bytes, proc[p].received + 1, proc[p].received + n)
                  acc   == processChunk(Acc(proc[p].buffer, proc[p].assistantContent,
                                            proc[p].thinkingTrace, proc[p].sources, <<>>),
                                        chunk)
              IN  proc' = [proc EXCEPT ![p].received = @ + n,
                                       ![p].buffer = acc.buffer,
                                       ![p].assistantContent = acc.assistantContent,
                                       ![p].thinkingTrace = acc.thinkingTrace,
                                       ![p].sources = acc.sources,
                                       ![p].events = @ \o acc.out]
         \/ \E e \in {"aborted"} :
              proc' = [proc EXCEPT ![p] = StreamCatch(@, e)]
         \/ /\ left = 0
            /\ LET acc == processLine(Acc(<<>>, proc[p].assistantContent,
                                          proc[p].thinkingTrace, proc[p].sources, <<>>),
                                      proc[p].buffer)
               IN  proc' = [proc EXCEPT ![p].buffer = <<>>,
                                        ![p].assistantContent = acc.assistantContent,
                                        ![p].thinkingTrace = acc.thinkingTrace,
                                        ![p].sources = acc.sources,
                                        ![p].events = @ \o acc.out,
                                        ![p].pc = "saveAssistant"]
  /\ UNCHANGED <<threads, messages, nextId, now, faults, started>>
  /\ UNCHANGED memoryVars

\* lines 186-230: the next chunk arrives (any number of the bytes not yet
\* delivered), or the transport fails, or the body ends.
StreamRead(p) ==
  /\ proc[p].op = "streamMessage" /\ proc[p].pc = "read"
  /\ LET bytes == proc[p].bytes
         left  == Len(bytes) - proc[p].received
     IN  \/ \E n \in 1..left :
              LET chunk == SubSeq(bytes, proc[p].received + 1, proc[p].received + n)
                  acc   == processChunk(Acc(proc[p].buffer, proc[p].assistantContent,
                                            proc[p].thinkingTrace, proc[p].sources, <<>>),
                                        chunk)
              IN  proc' = [proc EXCEPT ![p].received = @ + n,
                                       ![p].buffer = acc.buffer,
                                       ![p].assistantContent = acc.assistantContent,
                                       ![p].thinkingTrace = acc.thinkingTrace,
                                       ![p].sources = acc.sources,
                                       ![p].events = @ \o acc.out]
         \/ \E e \in {"aborted"} :
              proc' = [proc EXCEPT ![p] = StreamCatch(@, e)]
         \/ /\ left = 0
            /\ proc' = [proc EXCEPT ![p].pc = "saveAssistant"]
  /\ UNCHANGED <<threads, messages, nextId, now, faults, started>>
  /\ UNCHANGED memoryVars

\* JSON.stringify(thinkingTrace || {})  (line 238)
streamThinkingTrace(thinkingTrace) ==
  IF thinkingTrace = None THEN Some(EmptyObject) ELSE Some(JSONstringify(thinkingTrace[1]))

\* sources.map(...)  (lines 241-247)
streamSources(sources) == [i \in 1..Len(sources) |-> [url |-> sources[i]]]

\* Mutant: a rejected create of the assistant message is ignored and the
\* turn goes on as if the row had been written.
StreamSaveAssistantSwallowed(p) ==
  /\ proc[p].op = "streamMessage" /\ proc[p].pc = "saveAssistant"
  /\ \/ \E at \in Stamps :
          LET row == Message(nextId, proc[p].threadId, "ASSISTANT",
                             proc[p].assistantContent,
                             streamThinkingTrace(proc[p].thinkingTrace),
                             Meta(FALSE, "", TRUE), streamSources(proc[p].sources), at)
          IN  /\ messages' = create(messages, row)
              /\ nextId' = nextId + 1
              /\ now' = at
              /\ proc' = [proc EXCEPT ![p].assistantMessage = Some(row),
                                      ![p].created = Append(@, row.id),
                                      ![p].pc = "touch"]
              /\ UNCHANGED <<threads, faults, started>>
     \/ /\ faults < MaxFaults
        /\ faults' = faults + 1
        /\ \E at \in Stamps :
             LET row == Message(nextId, proc[p].threadId, "ASSISTANT",
                                proc[p].assistantContent,
                                streamThinkingTrace(proc[p].thinkingTrace),
                                Meta(FALSE, "", TRUE), streamSources(proc[p].sources), at)
             IN  proc' = [proc EXCEPT ![p] =
                            [Rejected(@, "message.create")
                               EXCEPT !.assistantMessage = Some(row), !.pc = "touch"]]
        /\ UNCHANGED <<threads, messages, nextId, now, started>>
  /\ UNCHANGED memoryVars

\* lines 232-253; a rejected create enters the catch.
StreamSaveAssistant(p) ==
  /\ proc[p].op = "streamMessage" /\ proc[p].pc = "saveAssistant"
  /\ \/ \E at \in Stamps :
          LET row == Message(nextId, proc[p].threadId, "ASSISTANT",
                             proc[p].assistantContent,
                             streamThinkingTrace(proc[p].thinkingTrace),
                             Meta(FALSE, "", TRUE), streamSources(proc[p].sources), at)
          IN  /\ messages' = create(messages, row)
              /\ nextId' = nextId + 1
              /\ now' = at
              /\ proc' = [proc EXCEPT ![p].assistantMessage = Some(row),
                                      ![p].created = Append(@, row.id),
                                      ![p].pc = "touch"]
              /\ UNCHANGED <<threads, faults, started>>
     \/ /\ faults < MaxFaults
        /\ faults' = faults + 1
        /\ proc' = [proc EXCEPT ![p] = StreamCatch(Rejected(@, "message.create"), StoreErrorMessage)]
        /\ UNCHANGED <<threads, messages, nextId, now, started>>
  /\ UNCHANGED memoryVars

\* Mutant: the terminal complete is yielded without the thread having been
\* updated.
StreamTouchSkipped(p) ==
  /\ proc[p].op = "streamMessage" /\ proc[p].pc = "touch"
  /\ proc' = [proc EXCEPT ![p].pc = "yieldComplete"]
  /\ UNCHANGED <<threads, messages, nextId, now, faults, started>>
  /\ UNCHANGED memoryVars

\* lines 255-259; a rejected update enters the catch.
StreamTouch(p) ==
  /\ proc[p].op = "streamMessage" /\ proc[p].pc = "touch"
  /\ \/ \E at \in Stamps :
          /\ threads' = touchThread(threads, proc[p].threadId, at)
          /\ now' = at
          /\ proc' = [proc EXCEPT ![p].touches = @ + 1, ![p].pc = "yieldComplete"]
          /\ UNCHANGED <<messages, nextId, faults, started>>
     \/ /\ faults < MaxFaults
        /\ faults' = faults + 1
        /\ proc' = [proc EXCEPT ![p] = StreamCatch(Rejected(@, "thread.update"), StoreErrorMessage)]
        /\ UNCHANGED <<threads, messages, nextId, now, started>>
  /\ UNCHANGED memoryVars

\* lines 261-265: the yield of the terminal complete; the generator then
\* finishes.
StreamYieldComplete(p) ==
  /\ proc[p].op = "streamMessage" /\ proc[p].pc = "yieldComplete"
  /\ proc' = [proc EXCEPT ![p] =
                Ended(Yield(@, Event("complete", None, None,
                                     proc[p].assistantMessage[1].id,
                                     "assistantMessage", "")),
                      "returned")]
  /\ UNCHANGED <<threads, messages, nextId, now, faults, started>>
  /\ UNCHANGED memoryVars

\* ------------------------------------------------------- the environment
\* The client of a streaming turn goes away: the Observable the controller
\* returned is unsubscribed.  Its subscribe function returns no teardown,
\* so nothing reaches the generator or the upstream request; the slot notes
\* where the turn stood and how many bytes it had consumed.
ClientDisconnect(p) ==
  /\ proc[p].op = "streamMessage" /\ proc[p].pc \notin {"idle", "done"}
  /\ proc[p].disconnectedAt = None
  /\ proc' = [proc EXCEPT ![p].disconnectedAt =
                              Some([pc |-> proc[p].pc, received |-> proc[p].received])]
  /\ UNCHANGED <<threads, messages, nextId, now, faults, started>>
  /\ UNCHANGED memoryVars

\* The upstream, having answered the streaming call, goes silent: it sends
\* no further chunk and does not close.  The request was made with
\* timeout: 300000 and nothing else; whether that timer still guards the
\* body once axios.post has resolved depends on the axios build.
UpstreamStall(p) ==
  /\ proc[p].op = "streamMessage" /\ proc[p].pc = "read"
  /\ \E armed \in BOOLEAN :
       proc' = [proc EXCEPT ![p].pc = "stalled", ![p].timeoutArmed = armed]
  /\ UNCHANGED <<threads, messages, nextId, now, faults, started>>
  /\ UNCHANGED memoryVars

\* The timer of the request fires on the silent connection and aborts it:
\* the loop's await rejects and the catch block runs.
StreamIdleTimeout(p) ==
  /\ proc[p].op = "streamMessage" /\ proc[p].pc = "stalled"
  /\ proc[p].timeoutArmed
  /\ proc' = [proc EXCEPT ![p] = StreamCatch(@, "aborted")]
  /\ UNCHANGED <<threads, messages, nextId, now, faults, started>>
  /\ UNCHANGED memoryVars

\* ------------------------------------------ ChatService.getThreadMessages
\* lines 291-296
GetValidate(p) ==
  /\ proc[p].op = "getThreadMessages" /\ proc[p].pc = "validate"
  /\ LET isOwner == validateThreadOwnership(proc[p].threadId, proc[p].userId)
     IN  proc' = [proc EXCEPT ![p] =
                    IF ~isOwner THEN Ended(@, "NotFoundException")
                    ELSE [@ EXCEPT !.pc = "find"]]
  /\ UNCHANGED <<threads, messages, nextId, now, faults, started>>
  /\ UNCHANGED memoryVars

\* lines 298-324, with the controller's defaults page = 1, limit = 50.
GetFind(p) ==
  /\ proc[p].op = "getThreadMessages" /\ proc[p].pc = "find"
  /\ \/ /\ \E o \in Orderings(ThreadMessages(messages, proc[p].threadId), FALSE) :
             proc' = [proc EXCEPT ![p] = Ended([@ EXCEPT !.history = Take(o, PageLimit)],
                                               "returned")]
        /\ UNCHANGED faults
     \/ /\ faults < MaxFaults
        /\ faults' = faults + 1
        /\ proc' = [proc EXCEPT ![p] = Ended(Rejected(@, "message.findMany"), "StoreError")]
  /\ UNCHANGED <<threads, messages, nextId, now, started>>
  /\ UNCHANGED memoryVars

\* ------------------------------------------------------ specifications
\* Spec: requests of every kind, by owners and non-owners, one after the
\* other on slot 1 (MaxTurns of them).
Step(p, bodies) ==
  \/ Request(p)
  \/ SendValidate(p) \/ SendSaveUser(p) \/ SendHistory(p) \/ SendPost(p)
  \/ SendSaveAssistant(p) \/ SendTouch(p) \/ SendCatch(p)
  \/ StreamValidate(p) \/ StreamSaveUser(p) \/ StreamYieldUser(p)
  \/ StreamHistory(p) \/ StreamPost(p, bodies)
  \/ StreamRead(p) \/ StreamSaveAssistant(p) \/ StreamTouch(p)
  \/ StreamYieldComplete(p)
  \/ GetValidate(p) \/ GetFind(p)

Next == Step(1, RelayBodies)

Spec == Init /\ [][Next]_vars

\* SpecStream: one streamMessage request of u1 on its thread t1, answered
\* with every body of Bodies, cut into chunks in every way.
InitStream ==
  /\ threads = [t \in {"t1", "t2"} |->
                  [userId |-> IF t = "t1" THEN "u1" ELSE "u2", updatedAt |-> 0]]
  /\ messages = <<>>
  /\ nextId = 1
  /\ now = 0
  /\ faults = 0
  /\ started = 1
  /\ proc = [p \in Procs |->
               IF p = 1 THEN [IdleProc EXCEPT !.op = "streamMessage", !.userId = "u1",
                                              !.threadId = "t1", !.pc = "validate"]
               ELSE IdleProc]
  /\ MemoryAtRest

StreamStep(p, bodies) ==
  \/ StreamValidate(p) \/ StreamSaveUser(p) \/ StreamYieldUser(p)
  \/ StreamHistory(p) \/ StreamPost(p, bodies)
  \/ StreamRead(p) \/ StreamSaveAssistant(p) \/ StreamTouch(p)
  \/ StreamYieldComplete(p)

NextStream == StreamStep(1, Bodies)

SpecStream == InitStream /\ [][NextStream]_vars


\* SpecDisconnect: one streamMessage request of u1 on its thread t1, whose
\* client may go away at any moment of the turn.
NextDisconnect == StreamStep(1, RelayBodies) \/ ClientDisconnect(1)

SpecDisconnect == InitStream /\ [][NextDisconnect]_vars

\* SpecLive: the relay specification with an upstream that may go silent in
\* the middle of a stream body.  The handlers are scheduled fairly (every
\* awaited store call and every axios.post settles, every chunk that has
\* arrived is taken); nothing obliges the upstream to go silent.
NextLive == Step(1, RelayBodies) \/ UpstreamStall(1) \/ StreamIdleTimeout(1)

SpecLive ==
  /\ Init /\ [][NextLive]_vars
  /\ WF_vars(Step(1, RelayBodies)) /\ WF_vars(StreamIdleTimeout(1))

\* SpecDenied: two requests of callers who do not own the thread they name
\* (another user's thread, or the id of no thread), up to the end of both.
InitDenied ==
  /\ threads = [t \in {"t1", "t2"} |->
                  [userId |-> IF t = "t1" THEN "u1" ELSE "u2", updatedAt |-> 0]]
  /\ messages \in {<<>>, SeedMessages}
  /\ nextId = Len(messages) + 1
  /\ now = 0
  /\ faults = 0
  /\ started = Cardinality(Procs)
  /\ proc \in [Procs -> {[IdleProc EXCEPT !.op = op, !.userId = c[1], !.threadId = c[2],
                                           !.pc = "validate"] :
                            op \in Ops, c \in Callers}]
  /\ \A p \in Procs :
       proc[p].threadId \in DOMAIN threads
         => threads[proc[p].threadId].userId # proc[p].userId
  /\ MemoryAtRest

NextDenied == \E p \in Procs : SendValidate(p) \/ StreamValidate(p) \/ GetValidate(p)

SpecDenied == InitDenied /\ [][NextDenied]_vars

\* SpecConc: two sendMessage turns of u1 on its thread t1 at the same time,
\* their steps interleaved in every way.
InitConc ==
  /\ threads = [t \in {"t1", "t2"} |->
                  [userId |-> IF t = "t1" THEN "u1" ELSE "u2", updatedAt |-> 0]]
  /\ messages = <<>>
  /\ nextId = 1
  /\ now = 0
  /\ faults = 0
  /\ started = Cardinality(Procs)
  /\ proc = [p \in Procs |->
               [IdleProc EXCEPT !.op = "sendMessage", !.userId = "u1", !.threadId = "t1",
                                !.pc = "validate"]]
  /\ MemoryAtRest

SendStep(p) ==
  \/ SendValidate(p) \/ SendSaveUser(p) \/ SendHistory(p) \/ SendPost(p)
  \/ SendSaveAssistant(p) \/ SendTouch(p) \/ SendCatch(p)

NextConc == \E p \in Procs : SendStep(p)

SpecConc == InitConc /\ [][NextConc]_vars

\* ------------------------------------------- ChatController.streamMessage
\* {data: JSON.stringify(chunk)} as MessageEvent (lines 56-58): the text
\* holds the members of the event that are set, in the order the service
\* wrote them; undefined members are left out.
MessageEventOf(ev) ==
  [data |->
     <<<<"type", ev.type>>>>
     \o (IF ev.content = None THEN <<>> ELSE <<<<"content", JSONstringify(ev.content[1])>>>>)
     \o (IF ev.messageId = 0 THEN <<>> ELSE <<<<"messageId", ev.messageId>>>>)
     \o (IF ev.data # None THEN <<<<"data", JSONstringify(ev.data[1])>>>>
         ELSE IF ev.carries # "none" THEN <<<<"data", ev.carries>>>>
         ELSE IF ev.type = "error" THEN <<<<"data", ev.error>>>>
         ELSE <<>>)]

\* line 55: the loop asks the generator for its next event only after the
\* event before was handed to the observer, so the generator takes a step
\* when everything it has yielded is forwarded.
ControllerPull(p, bodies) ==
  /\ proc[p].observer = "open"
  /\ Len(proc[p].forwarded) = Len(proc[p].events)
  /\ StreamStep(p, bodies)

\* lines 56-58: observer.next with the event the generator yielded.
ControllerNext(p) ==
  /\ proc[p].observer = "open"
  /\ Len(proc[p].forwarded) < Len(proc[p].events)
  /\ proc' = [proc EXCEPT ![p].forwarded =
                Append(@, MessageEventOf(proc[p].events[Len(proc[p].forwarded) + 1]))]
  /\ UNCHANGED <<threads, messages, nextId, now, faults, started>>
  /\ UNCHANGED memoryVars

\* Mutant: the loop is left with observer.error when the generator's last
\* event was an error event.
ControllerEndErrorOnErrorEvent(p) ==
  /\ proc[p].observer = "open" /\ proc[p].pc = "done"
  /\ Len(proc[p].forwarded) = Len(proc[p].events)
  /\ proc' = [proc EXCEPT ![p].observer =
                IF proc[p].outcome = "returned"
                   /\ (proc[p].events = <<>> \/ Last(proc[p].events).type # "error")
                THEN "complete" ELSE "error"]
  /\ UNCHANGED <<threads, messages, nextId, now, faults, started>>
  /\ UNCHANGED memoryVars

\* lines 61-64: the generator is done, the loop is left: observer.complete()
\* when it finished, observer.error(error) when it threw.
ControllerEnd(p) ==
  /\ proc[p].observer = "open" /\ proc[p].pc = "done"
  /\ Len(proc[p].forwarded) = Len(proc[p].events)
  /\ proc' = [proc EXCEPT ![p].observer =
                IF proc[p].outcome = "returned" THEN "complete" ELSE "error"]
  /\ UNCHANGED <<threads, messages, nextId, now, faults, started>>
  /\ UNCHANGED memoryVars

\* SpecController: the controller's loop around one streamMessage request of
\* u1 on its thread t1, answered with every body of Bodies, the Observable
\* subscribed.
NextController ==
  \/ ControllerPull(1, Bodies)
  \/ ControllerNext(1)
  \/ ControllerEnd(1)

SpecController == InitStream /\ [][NextController]_vars

\* --------------------------------- ChatService.getConversationHistory
\* The message tables a history read is applied to: up to MaxRows rows of
\* the two threads in insertion order, the clock never going back, USER rows
\* and ASSISTANT rows with one source.
HistoryRows ==
  {[threadId |-> t, role |-> r, createdAt |-> c] :
     t \in {"t1", "t2"}, r \in {"USER", "ASSISTANT"}, c \in 0..MaxClock}
HistoryTables ==
  LET shapes == UNION {[1..n -> HistoryRows] : n \in 0..MaxRows}
      rising(f) == \A i \in 1..(Len(f) - 1) : f[i].createdAt <= f[i + 1].createdAt
  IN  {[i \in 1..Len(f) |->
          Message(i, f[i].threadId, f[i].role, <<"x">>, None, EmptyMeta,
                  IF f[i].role = "ASSISTANT" THEN <<[url |-> <<"x">>]>> ELSE <<>>,
                  f[i].createdAt)] : f \in {g \in shapes : rising(g)}}

\* lines 278-289, called with the given limit.
GetConversationHistory(p, limit) ==
  /\ proc[p].op = "getConversationHistory" /\ proc[p].pc = "history"
  /\ \E h \in getConversationHistory(messages, proc[p].threadId, limit) :
       proc' = [proc EXCEPT ![p] = Ended([@ EXCEPT !.history = h, !.limit = limit],
                                         "returned")]
  /\ UNCHANGED <<threads, messages, nextId, now, faults, started>>
  /\ UNCHANGED memoryVars

\* SpecHistory: one history read of thread t1 over each table.
InitHistory ==
  /\ threads = [t \in {"t1", "t2"} |->
                  [userId |-> IF t = "t1" THEN "u1" ELSE "u2", updatedAt |-> 0]]
  /\ messages \in HistoryTables
  /\ nextId = Len(messages) + 1
  /\ now = MaxClock
  /\ faults = 0
  /\ started = 1
  /\ proc = [p \in Procs |->
               IF p = 1 THEN [IdleProc EXCEPT !.op = "getConversationHistory",
                                              !.threadId = "t1", !.pc = "history"]
               ELSE IdleProc]
  /\ MemoryAtRest

NextHistory == \E limit \in 1..MaxLimit : GetConversationHistory(1, limit)

SpecHistory == InitHistory /\ [][NextHistory]_vars

\* ------------------------------------------------------ ThreadsService
TS_Ops == {"findAll", "findOne", "update", "remove"}
Titles == {"renamed"}

\* Mutant: findFirst({where: {id}}), the owner left out of the filter.
findFirstById(ths, id, userId) == IF id \in DOMAIN ths THEN Some(id) ELSE None

\* prisma.thread.findFirst({where: {id, userId}}): the row's id, or null.
findFirst(ths, id, userId) ==
  IF id \in DOMAIN ths /\ ths[id].userId = userId THEN Some(id) ELSE None

\* The orders findMany may return the given threads in for orderBy updatedAt
\* desc: threads with equal updatedAt in any order.
ThreadOrderings(ths, ids) ==
  LET n == Cardinality(ids)
  IN  {o \in [1..n -> ids] :
         /\ \A i, j \in 1..n : i # j => o[i] # o[j]
         /\ \A i \in 1..(n - 1) : ths[o[i]].updatedAt >= ths[o[i + 1]].updatedAt}

\* Mutant: findMany with no where clause.
findManyOfAll(ths, userId, skip, take) ==
  {Take(Drop(o, skip), take) : o \in ThreadOrderings(ths, DOMAIN ths)}

\* prisma.thread.findMany({where: {userId}, orderBy: updatedAt desc, skip,
\* take}): the pages of ids it may return.
findManyThreads(ths, userId, skip, take) ==
  {Take(Drop(o, skip), take) :
     o \in ThreadOrderings(ths, {t \in DOMAIN ths : ths[t].userId = userId})}

\* messages: {take: 1, orderBy: createdAt desc} and thread.messages[0] || null.
lastMessage(rows, threadId) ==
  IF ThreadMessages(rows, threadId) = <<>> THEN {None}
  ELSE {Some([id |-> Head(o).id, content |-> Head(o).content, role |-> Head(o).role,
              createdAt |-> Head(o).createdAt]) :
          o \in Orderings(ThreadMessages(rows, threadId), TRUE)}

\* What the service returns of a thread: the row, messageCount, and the
\* messages or the last message the call includes.
ThreadView(ths, rows, id, included) ==
  [id |-> id, userId |-> ths[id].userId, title |-> ths[id].title,
   updatedAt |-> ths[id].updatedAt,
   messageCount |-> Len(ThreadMessages(rows, id)), messages |-> included]

\* The lists findAll may return for a page of ids.
Listings(ths, rows, page) ==
  {[i \in 1..Len(page) |-> ThreadView(ths, rows, page[i], l[i])] :
     l \in {f \in [1..Len(page) -> UNION {lastMessage(rows, t) : t \in DOMAIN ths}] :
              \A i \in 1..Len(page) : f[i] \in lastMessage(rows, page[i])}}

\* A request reaches the threads controller: the caller's id is req.user.id.
TS_Request(p) ==
  /\ proc[p].pc \in {"idle", "done"}
  /\ started < MaxCalls
  /\ \E op \in TS_Ops, u \in Users, t \in ThreadIds :
       proc' = [proc EXCEPT ![p] =
                  [IdleProc EXCEPT !.op = op, !.userId = u,
                                   !.threadId = IF op = "findAll" THEN "none" ELSE t,
                                   !.pc = "find"]]
  /\ started' = started + 1
  /\ UNCHANGED <<threads, messages, nextId, now, faults>>
  /\ UNCHANGED memoryVars

\* lines 30-81
TS_FindAll(p, page, limit) ==
  /\ proc[p].op = "findAll" /\ proc[p].pc = "find"
  /\ \/ /\ \E ids \in findManyThreads(threads, proc[p].userId, (page - 1) * limit, limit) :
             \E listing \in Listings(threads, messages, ids) :
               proc' = [proc EXCEPT ![p] =
                          Ended([@ EXCEPT !.page = page, !.limit = limit,
                                          !.result = Some(listing)], "returned")]
        /\ UNCHANGED faults
     \/ /\ faults < MaxFaults
        /\ faults' = faults + 1
        /\ proc' = [proc EXCEPT ![p] = Ended(Rejected(@, "thread.findMany"), "StoreError")]
  /\ UNCHANGED <<threads, messages, nextId, now, started>>
  /\ UNCHANGED memoryVars

\* lines 83-115
TS_FindOne(p) ==
  /\ proc[p].op = "findOne" /\ proc[p].pc = "find"
  /\ \/ /\ LET thread == findFirst(threads, proc[p].threadId, proc[p].userId)
           IN  IF thread = None
               THEN proc' = [proc EXCEPT ![p] = Ended(@, "NotFoundException")]
               ELSE \E o \in Orderings(ThreadMessages(messages, thread[1]), FALSE) :
                      proc' = [proc EXCEPT ![p] =
                                 Ended([@ EXCEPT !.result =
                                          Some(<<ThreadView(threads, messages, thread[1], o)>>)],
                                       "returned")]
        /\ UNCHANGED faults
     \/ /\ faults < MaxFaults
        /\ faults' = faults + 1
        /\ proc' = [proc EXCEPT ![p] = Ended(Rejected(@, "thread.findFirst"), "StoreError")]
  /\ UNCHANGED <<threads, messages, nextId, now, started>>
  /\ UNCHANGED memoryVars

\* lines 119-128 and 151-160: the ownership lookup of update and of remove.
TS_FindExisting(p) ==
  /\ proc[p].op \in {"update", "remove"} /\ proc[p].pc = "find"
  /\ \/ /\ proc' = [proc EXCEPT ![p] =
                      IF findFirst(threads, proc[p].threadId, proc[p].userId) = None
                      THEN Ended(@, "NotFoundException")
                      ELSE [@ EXCEPT !.pc = "write"]]
        /\ UNCHANGED faults
     \/ /\ faults < MaxFaults
        /\ faults' = faults + 1
        /\ proc' = [proc EXCEPT ![p] = Ended(Rejected(@, "thread.findFirst"), "StoreError")]
  /\ UNCHANGED <<threads, messages, nextId, now, started>>
  /\ UNCHANGED memoryVars

\* lines 130-146: thread.update({where: {id}, data}); it rejects when the
\* row is gone.
TS_Update(p, title) ==
  /\ proc[p].op = "update" /\ proc[p].pc = "write"
  /\ \/ /\ proc[p].threadId \in DOMAIN threads
        /\ \E at \in Stamps :
             /\ threads' = [threads EXCEPT ![proc[p].threadId].title = title,
                                           ![proc[p].threadId].updatedAt = at]
             /\ now' = at
             /\ proc' = [proc EXCEPT ![p] =
                           Ended([@ EXCEPT !.result =
                                    Some(<<ThreadView(threads', messages, proc[p].threadId, None)>>)],
                                 "returned")]
        /\ UNCHANGED faults
     \/ /\ proc[p].threadId \notin DOMAIN threads
        /\ proc' = [proc EXCEPT ![p] = Ended(Rejected(@, "thread.update"), "StoreError")]
        /\ UNCHANGED <<threads, now, faults>>
     \/ /\ faults < MaxFaults
        /\ faults' = faults + 1
        /\ proc' = [proc EXCEPT ![p] = Ended(Rejected(@, "thread.update"), "StoreError")]
        /\ UNCHANGED <<threads, now>>
  /\ UNCHANGED <<messages, nextId, started>>
  /\ UNCHANGED memoryVars

\* lines 162-166: thread.delete({where: {id}}); it rejects when the row is
\* gone.  The relation decides what becomes of the thread's messages: they go
\* with it (onDelete: Cascade) or, there being any, the delete is refused.
TS_Remove(p) ==
  /\ proc[p].op = "remove" /\ proc[p].pc = "write"
  /\ \/ /\ proc[p].threadId \in DOMAIN threads
        /\ threads' = [t \in DOMAIN threads \ {proc[p].threadId} |-> threads[t]]
        /\ messages' = SelectSeq(messages, LAMBDA m : m.threadId # proc[p].threadId)
        /\ proc' = [proc EXCEPT ![p] = Ended(@, "returned")]
        /\ UNCHANGED faults
     \/ /\ \/ proc[p].threadId \notin DOMAIN threads
           \/ ThreadMessages(messages, proc[p].threadId) # <<>>
        /\ proc' = [proc EXCEPT ![p] = Ended(Rejected(@, "thread.delete"), "StoreError")]
        /\ UNCHANGED <<threads, messages, faults>>
     \/ /\ faults < MaxFaults
        /\ faults' = faults + 1
        /\ proc' = [proc EXCEPT ![p] = Ended(Rejected(@, "thread.delete"), "StoreError")]
        /\ UNCHANGED <<threads, messages>>
  /\ UNCHANGED <<nextId, now, started>>
  /\ UNCHANGED memoryVars

\* SpecThreads: two callers of the threads service.  u1 owns t1 and t4, u2
\* owns t2; t1 holds the seeded conversation and t2 one message.
InitThreads ==
  /\ threads = [t \in {"t1", "t2", "t4"} |->
                  [userId |-> IF t = "t2" THEN "u2" ELSE "u1", updatedAt |-> 0,
                   title |-> "untitled"]]
  /\ messages = Append(SeedMessages,
                       Message(3, "t2", "USER", Question, None, EmptyMeta, <<>>, 0))
  /\ nextId = Len(messages) + 1
  /\ now = 0
  /\ faults = 0
  /\ started = 0
  /\ proc = [p \in Procs |-> IdleProc]
  /\ MemoryAtRest

NextThreads ==
  \E p \in Procs :
    \/ TS_Request(p)
    \/ \E page \in 1..2, limit \in 1..MaxLimit : TS_FindAll(p, page, limit)
    \/ TS_FindOne(p)
    \/ TS_FindExisting(p)
    \/ \E title \in Titles : TS_Update(p, title)
    \/ TS_Remove(p)

SpecThreads == InitThreads /\ [][NextThreads]_vars

\* ------------------------------------------------------- MemoryService
chatVars == <<threads, messages, nextId, started, proc>>

\* A call of the memory service begins: what the caller remembers of it.
Called(c, op, at) ==
  [c EXCEPT !.calls = @ + 1, !.op = op, !.outcome = "pending", !.at = at,
            !.key = "none", !.value = None, !.userId = "none", !.query = <<>>,
            !.limit = 0, !.record = None, !.rows = <<>>, !.storeFailed = FALSE,
            !.before = <<>>]

\* Mutant: storeShortTermMemory without its try/catch.
StoreShortTermMemoryThrowing(key, data, ttl) ==
  /\ mproc.calls < MaxCalls
  /\ \E at \in Stamps :
       /\ now' = at
       /\ \/ /\ redis' = [redis EXCEPT ![key] = Some(Entry(JSONstringifyValue(data), at + ttl))]
             /\ mproc' = [Called(mproc, "storeShortTermMemory", at) EXCEPT
                            !.key = key, !.outcome = "returned"]
             /\ UNCHANGED faults
          \/ /\ faults < MaxFaults
             /\ faults' = faults + 1
             /\ mproc' = [Called(mproc, "storeShortTermMemory", at) EXCEPT
                            !.key = key, !.storeFailed = TRUE, !.outcome = "threw"]
             /\ UNCHANGED redis
  /\ UNCHANGED <<chatVars, memories>>

\* lines 34-44: SETEX key ttl JSON.stringify(data); a rejected write is
\* logged and the call returns.
StoreShortTermMemory(key, data, ttl) ==
  /\ mproc.calls < MaxCalls
  /\ \E at \in Stamps :
       /\ now' = at
       /\ \/ /\ redis' = [redis EXCEPT ![key] = Some(Entry(JSONstringifyValue(data), at + ttl))]
             /\ mproc' = [Called(mproc, "storeShortTermMemory", at) EXCEPT
                            !.key = key, !.outcome = "returned"]
             /\ UNCHANGED faults
          \/ /\ faults < MaxFaults
             /\ faults' = faults + 1
             /\ mproc' = [Called(mproc, "storeShortTermMemory", at) EXCEPT
                            !.key = key, !.storeFailed = TRUE, !.outcome = "returned"]
             /\ UNCHANGED redis
  /\ UNCHANGED <<chatVars, memories>>

\* data ? JSON.parse(data) : null  (line 49): what the try block yields, a
\* value or the SyntaxError JSON.parse throws.  The empty string is falsy.
parseCached(data) ==
  IF data = None \/ data[1] = <<>> THEN JsNull ELSE JSONparseValue(data[1])

\* Mutant: getShortTermMemory without its try/catch.
GetShortTermMemoryThrowing(key) ==
  /\ mproc.calls < MaxCalls
  /\ \E at \in Stamps :
       /\ now' = at
       /\ \/ /\ LET v == parseCached(redisGet(redis, key, at))
                IN  mproc' = [Called(mproc, "getShortTermMemory", at) EXCEPT
                                !.key = key,
                                !.value = IF v.kind = "SyntaxError" THEN None ELSE Some(v),
                                !.outcome = IF v.kind = "SyntaxError" THEN "threw"
                                            ELSE "returned"]
             /\ UNCHANGED faults
          \/ /\ faults < MaxFaults
             /\ faults' = faults + 1
             /\ mproc' = [Called(mproc, "getShortTermMemory", at) EXCEPT
                            !.key = key, !.storeFailed = TRUE, !.outcome = "threw"]
  /\ UNCHANGED <<chatVars, memories, redis>>

\* lines 46-54: GET key; a rejected read and a payload JSON.parse refuses
\* both end in the catch, which returns null.
GetShortTermMemory(key) ==
  /\ mproc.calls < MaxCalls
  /\ \E at \in Stamps :
       /\ now' = at
       /\ \/ /\ LET v == parseCached(redisGet(redis, key, at))
                IN  mproc' = [Called(mproc, "getShortTermMemory", at) EXCEPT
                                !.key = key,
                                !.value = IF v.kind = "SyntaxError" THEN Some(JsNull)
                                          ELSE Some(v),
                                !.outcome = "returned"]
             /\ UNCHANGED faults
          \/ /\ faults < MaxFaults
             /\ faults' = faults + 1
             /\ mproc' = [Called(mproc, "getShortTermMemory", at) EXCEPT
                            !.key = key, !.storeFailed = TRUE, !.value = Some(JsNull),
                            !.outcome = "returned"]
  /\ UNCHANGED <<chatVars, memories, redis>>

\* Mutant: storeLongTermMemory with a catch that logs and returns.
StoreLongTermMemorySwallowing(userId, content, type) ==
  /\ mproc.calls < MaxCalls
  /\ \E at \in Stamps :
       /\ now' = at
       /\ \/ /\ LET row == Memory(mproc.ids, userId, type, content, at)
                IN  /\ memories' = Append(memories, row)
                    /\ mproc' = [Called(mproc, "storeLongTermMemory", at) EXCEPT
                                   !.userId = userId, !.record = Some(row),
                                   !.before = memories, !.ids = @ + 1,
                                   !.during = IF mproc.sweepPc = "deleting"
                                              THEN @ \cup {row.id} ELSE @,
                                   !.outcome = "returned"]
             /\ UNCHANGED faults
          \/ /\ faults < MaxFaults
             /\ faults' = faults + 1
             /\ mproc' = [Called(mproc, "storeLongTermMemory", at) EXCEPT
                            !.userId = userId, !.storeFailed = TRUE,
                            !.before = memories, !.outcome = "returned"]
             /\ UNCHANGED memories
  /\ UNCHANGED <<chatVars, redis>>

\* lines 56-80: prisma.memory.create (createdAt defaults to now()); a
\* rejected create is logged and thrown again.
StoreLongTermMemory(userId, content, type) ==
  /\ mproc.calls < MaxCalls
  /\ \E at \in Stamps :
       /\ now' = at
       /\ \/ /\ LET row == Memory(mproc.ids, userId, type, content, at)
                IN  /\ memories' = Append(memories, row)
                    /\ mproc' = [Called(mproc, "storeLongTermMemory", at) EXCEPT
                                   !.userId = userId, !.record = Some(row),
                                   !.before = memories, !.ids = @ + 1,
                                   !.during = IF mproc.sweepPc = "deleting"
                                              THEN @ \cup {row.id} ELSE @,
                                   !.outcome = "returned"]
             /\ UNCHANGED faults
          \/ /\ faults < MaxFaults
             /\ faults' = faults + 1
             /\ mproc' = [Called(mproc, "storeLongTermMemory", at) EXCEPT
                            !.userId = userId, !.storeFailed = TRUE,
                            !.before = memories, !.outcome = "threw"]
             /\ UNCHANGED memories
  /\ UNCHANGED <<chatVars, redis>>

\* lines 82-104: findMany({where, orderBy: createdAt desc, take: limit}); a
\* rejected query is logged and the call returns [].
SearchMemories(userId, query, limit) ==
  /\ mproc.calls < MaxCalls
  /\ \E at \in Stamps :
       /\ now' = at
       /\ \/ /\ \E found \in findMemories(memories, userId, query, limit) :
                  mproc' = [Called(mproc, "searchMemories", at) EXCEPT
                              !.userId = userId, !.query = query, !.limit = limit,
                              !.rows = found, !.before = memories,
                              !.outcome = "returned"]
             /\ UNCHANGED faults
          \/ /\ faults < MaxFaults
             /\ faults' = faults + 1
             /\ mproc' = [Called(mproc, "searchMemories", at) EXCEPT
                            !.userId = userId, !.query = query, !.limit = limit,
                            !.storeFailed = TRUE, !.before = memories,
                            !.outcome = "returned"]
  /\ UNCHANGED <<chatVars, memories, redis>>

\* lines 126-127: new Date() and setDate, up to the await of deleteMany.
CleanupStart ==
  /\ mproc.sweepPc \in {"idle", "done"}
  /\ mproc.sweeps < MaxSweeps
  /\ \E at \in Stamps :
       /\ now' = at
       /\ mproc' = [mproc EXCEPT
                      !.sweepPc = "deleting", !.sweepStart = at,
                      !.cutoffDate = setDate(at, mproc.tz, 0 - RetentionDays),
                      !.prevStart = mproc.sweepStart,
                      !.prevOk = (mproc.sweepPc = "done" /\ ~mproc.sweepFailed),
                      !.sweepBefore = <<>>, !.deleted = <<>>, !.during = {},
                      !.sweepFailed = FALSE]
  /\ UNCHANGED <<chatVars, faults, memories, redis>>

\* lines 129-143: the store runs deleteMany; a rejected deleteMany is logged
\* and the sweep returns undefined.
CleanupDelete ==
  /\ mproc.sweepPc = "deleting"
  /\ \/ /\ memories' = SelectSeq(memories, LAMBDA m : ~expired(m, mproc.cutoffDate))
        /\ mproc' = [mproc EXCEPT
                       !.sweepPc = "done", !.sweeps = @ + 1, !.sweepBefore = memories,
                       !.deleted = SelectSeq(memories,
                                             LAMBDA m : expired(m, mproc.cutoffDate))]
        /\ UNCHANGED faults
     \/ /\ faults < MaxFaults
        /\ faults' = faults + 1
        /\ mproc' = [mproc EXCEPT !.sweepPc = "done", !.sweeps = @ + 1,
                                  !.sweepBefore = memories, !.sweepFailed = TRUE]
        /\ UNCHANGED memories
  /\ UNCHANGED <<chatVars, now, redis>>

\* The chat service is not in use.
ChatAtRest ==
  /\ threads = [t \in {"t1", "t2"} |->
                  [userId |-> IF t = "t1" THEN "u1" ELSE "u2", updatedAt |-> 0]]
  /\ messages = <<>>
  /\ nextId = 1
  /\ now = 0
  /\ faults = 0
  /\ started = 0
  /\ proc = [p \in Procs |-> IdleProc]

\* Entries another writer left in the cache: a payload that is not JSON and
\* an empty payload.
ForeignEntries == {Entry(<<"x">>, MaxClock + 1), Entry(<<>>, MaxClock + 1)}

\* SpecCache: the short-term cache and its two operations.
InitCache ==
  /\ ChatAtRest
  /\ memories = <<>>
  /\ mproc = IdleCaller
  /\ \/ redis = [k \in Keys |-> None]
     \/ \E e \in ForeignEntries : redis = [k \in Keys |-> IF k = "k2" THEN Some(e) ELSE None]

NextCache ==
  \/ \E key \in Keys, data \in CacheData : StoreShortTermMemory(key, data, DefaultTtl)
  \/ \E key \in Keys : GetShortTermMemory(key)

SpecCache == InitCache /\ [][NextCache]_vars

\* The records in the table when the model starts: of both users, of every
\* type, created 30 days before the start, give or take an hour or two.
SeedMemories ==
  LET horizon == 0 - RetentionDays * HoursPerDay
  IN  << Memory(1, "u1", "CONVERSATION", <<"a", "B">>, horizon - 1),
         Memory(2, "u2", "FACT", <<"b">>, horizon - 1),
         Memory(3, "u2", "INSIGHT", <<"a", "B">>, horizon - 1),
         Memory(4, "u1", "CONVERSATION", <<"b">>, horizon),
         Memory(5, "u2", "DOCUMENT", <<"b">>, horizon),
         Memory(6, "u2", "CONVERSATION", <<"a", "B">>, horizon + 1) >>

\* SpecSweep: the long-term memory log, its writer and the retention sweep,
\* the sweep's two steps interleaved with the writes, in each time zone.
InitSweep ==
  /\ ChatAtRest
  /\ redis = [k \in Keys |-> None]
  /\ memories \in {<<>>, SeedMemories}
  /\ \E tz \in Zones : mproc = [IdleCaller EXCEPT !.tz = tz, !.ids = Len(memories) + 1]

NextSweep ==
  \/ \E type \in {"CONVERSATION", "FACT"} : StoreLongTermMemory("u1", <<"b">>, type)
  \/ CleanupStart
  \/ CleanupDelete

SpecSweep == InitSweep /\ [][NextSweep]_vars

\* SpecSearch: the long-term memory log, its writer and its search.
InitSearch ==
  /\ ChatAtRest
  /\ redis = [k \in Keys |-> None]
  /\ memories \in {<<>>, SeedMemories}
  /\ mproc = [IdleCaller EXCEPT !.ids = Len(memories) + 1]

NextSearch ==
  \/ \E u \in Users, content \in Contents : StoreLongTermMemory(u, content, "FACT")
  \/ \E u \in Users, query \in Queries, limit \in 1..MaxLimit :
       SearchMemories(u, query, limit)

SpecSearch == InitSearch /\ [][NextSearch]_vars

\* ------------------------------------------------------------- claims
\* Ownership as the data model states it, read off the thread rows.
OwnsThread(u, t) == t \in DOMAIN threads /\ threads[t].userId = u

\* The rows of the given role that the request in slot p has created.
CreatedRows(p, role) ==
  {i \in 1..Len(messages) :
     /\ messages[i].role = role
     /\ \E k \in 1..Len(proc[p].created) : proc[p].created[k] = messages[i].id}

IsRelay(p) == proc[p].op \in {"sendMessage", "streamMessage"}
UpstreamFailed(p) == proc[p].error \in UpstreamErrors \cup {"aborted"}

\* C1: every finished sendMessage call of the thread's owner has persisted
\* exactly one USER and exactly one ASSISTANT message in the thread and has
\* updated the thread's updatedAt exactly once.  Stated here for the calls
\* in which no store call failed, where the outcome of the upstream call is
\* the only thing that varies.
C1_ExactlyOnePairAndTouch ==
  \A p \in Procs :
    (/\ proc[p].op = "sendMessage" /\ proc[p].pc = "done"
     /\ OwnsThread(proc[p].userId, proc[p].threadId)
     /\ faults = 0)
    => /\ Cardinality(CreatedRows(p, "USER")) = 1
       /\ Cardinality(CreatedRows(p, "ASSISTANT")) = 1
       /\ \A i \in CreatedRows(p, "USER") \cup CreatedRows(p, "ASSISTANT") :
            messages[i].threadId = proc[p].threadId
       /\ proc[p].touches = 1

\* C2: a relay operation of a user who does not own the thread (the thread
\* of another user, or no thread at all) ends at its ownership check with
\* the access-denied error, and that step creates no message or source,
\* changes no thread row, makes no upstream call and yields no event.
C2_NonOwnerDenied ==
  [][\A p \in Procs :
       (/\ proc[p].pc = "validate"
        /\ ~OwnsThread(proc[p].userId, proc[p].threadId)
        /\ proc'[p] # proc[p])
       => /\ proc'[p] = Ended(proc[p], "NotFoundException")
          /\ messages' = messages
          /\ threads' = threads
          /\ proc[p].posts = 0 /\ proc[p].events = <<>> /\ proc[p].created = <<>>]_vars

\* A non-owner's streamMessage was denied while the store held messages.
C2_Witness ==
  \E p \in Procs :
    /\ proc[p].op = "streamMessage" /\ proc[p].pc = "done"
    /\ proc[p].threadId \in DOMAIN threads
    /\ ~OwnsThread(proc[p].userId, proc[p].threadId)
    /\ proc[p].outcome = "NotFoundException"
    /\ \E i \in 1..Len(messages) : messages[i].threadId = proc[p].threadId

\* The event that ends a streaming turn: an error event, or the complete
\* event that carries the assistant message (the first event, which carries
\* the user message, has type complete too and is not counted).
IsTerminal(ev) ==
  ev.type = "error" \/ (ev.type = "complete" /\ ev.carries = "assistantMessage")

\* C3: every ended streamMessage invocation has emitted exactly one terminal
\* event, and it is the last event emitted.
C3_ExactlyOneTerminalEvent ==
  \A p \in Procs :
    (proc[p].op = "streamMessage" /\ proc[p].pc = "done")
    => /\ proc[p].events # <<>>
       /\ IsTerminal(Last(proc[p].events))
       /\ Cardinality({i \in 1..Len(proc[p].events) : IsTerminal(proc[p].events[i])}) = 1

\* The bytes of the body delivered so far, and the events the loop of
\* streamMessage has yielded (all but the user-message event and the
\* terminal event).
Delivered(p) == SubSeq(proc[p].bytes, 1, proc[p].received)
LoopEvents(p) ==
  SelectSeq(proc[p].events, LAMBDA ev : ev.type \in {"token", "thinking", "source"})
InLoopOrAfter(p) ==
  /\ proc[p].op = "streamMessage" /\ proc[p].posts > 0
  /\ proc[p].error \notin UpstreamErrors

\* C4: however the delivered bytes were cut into chunks, the decoded events
\* and the accumulation buffers are those of the same bytes arriving as a
\* single chunk.
C4_ChunkBoundaryInvariant ==
  \A p \in Procs :
    InLoopOrAfter(p)
    => LET whole == processChunk(EmptyAcc, Delivered(p))
       IN  /\ LoopEvents(p) = whole.out
           /\ proc[p].assistantContent = whole.assistantContent
           /\ proc[p].thinkingTrace = whole.thinkingTrace
           /\ proc[p].sources = whole.sources
           /\ proc[p].buffer = whole.buffer

RECURSIVE ConcatContent(_)
ConcatContent(evs) ==
  IF evs = <<>> THEN <<>> ELSE Head(evs).content[1] \o ConcatContent(Tail(evs))

EventsOfType(p, type) == SelectSeq(proc[p].events, LAMBDA ev : ev.type = type)

UpstreamEvent(kind) ==
  CASE kind = "tokenX"    -> <<TokenEvent(<<"x">>)>>
    [] kind = "tokenE"    -> <<TokenEvent(<<EAcute>>)>>
    [] kind = "thinking"  -> <<ThinkingEvent(<<"y">>)>>
    [] kind = "thinking2" -> <<ThinkingEvent(<<"x", "y">>)>>
    [] kind = "source"    -> <<SourceEvent(<<"x">>)>>
    [] OTHER              -> <<>>

\* The number of records of the body whose newline has been delivered.
LinesDelivered(p) ==
  Cardinality({i \in 1..proc[p].received : proc[p].bytes[i] = NL})

UpstreamEvents(p) ==
  Flatten([i \in 1..LinesDelivered(p) |-> UpstreamEvent(proc[p].body.lines[i])])

\* C6: the token, thinking and source events yielded downstream are the
\* events of the upstream records received so far, one for one, in order.
C6_DownstreamIsUpstream ==
  \A p \in Procs : InLoopOrAfter(p) => LoopEvents(p) = UpstreamEvents(p)

\* C7: a sendMessage call whose upstream call failed has persisted an
\* ASSISTANT message with the apology text and error-marked metadata, has
\* updated the thread's updatedAt, and ends with the HTTP 500 exception.
C7_UpstreamFailureRecordedAndTouched ==
  \A p \in Procs :
    (/\ proc[p].op = "sendMessage" /\ proc[p].pc = "done"
     /\ proc[p].error \in UpstreamErrors
     /\ faults = 0)
    => /\ proc[p].outcome = "HttpException500"
       /\ \E i \in CreatedRows(p, "ASSISTANT") :
            messages[i].content = SendApology /\ messages[i].metadata.error
       /\ proc[p].touches >= 1

\* C8: on both paths, a turn whose upstream call failed (rejected, timed
\* out, or broke while the body was read) has persisted an ASSISTANT message
\* that marks the turn as failed.
C8_UpstreamFailurePersisted ==
  \A p \in Procs :
    (IsRelay(p) /\ proc[p].pc = "done" /\ UpstreamFailed(p) /\ faults = 0)
    => /\ \E i \in CreatedRows(p, "ASSISTANT") : messages[i].metadata.error
       /\ proc[p].op = "sendMessage" => proc[p].outcome = "HttpException500"
       /\ proc[p].op = "streamMessage" => Last(proc[p].events).type = "error"

\* C9: from the upstream call on, also after it failed, the user's message
\* of the turn is a row of the store, exactly as it was created.
C9_UserMessagePersistedBeforeUpstream ==
  \A p \in Procs :
    (IsRelay(p) /\ (proc[p].posts > 0 \/ proc[p].pc = "post"))
    => /\ proc[p].userMessage # None
       /\ \E i \in 1..Len(messages) :
            /\ messages[i] = proc[p].userMessage[1]
            /\ messages[i].role = "USER"
            /\ messages[i].content = Question
            /\ messages[i].threadId = proc[p].threadId

\* The upstream call of a turn failed and the user's message is in place.
C9_Witness ==
  \E p \in Procs :
    /\ IsRelay(p) /\ proc[p].pc = "done" /\ proc[p].error \in UpstreamErrors
    /\ \E i \in 1..Len(messages) : messages[i] = proc[p].userMessage[1]

\* C10: when no relay operation is running, the updatedAt of every thread
\* is at or after the creation time of each of its messages.  Stated for
\* the behaviours in which no store call failed.
C10_UpdatedAtCoversEveryMessage ==
  ((\A p \in Procs : proc[p].pc \in {"idle", "done"}) /\ faults = 0)
  => \A i \in 1..Len(messages) :
       threads[messages[i].threadId].updatedAt >= messages[i].createdAt

\* error.message of the exceptions the relay catches.
InternalErrorTexts == UpstreamErrors \cup {"aborted", StoreErrorMessage}

\* C11: no persisted message holds, in its content or its metadata, the
\* error.message of a caught exception, and no emitted event holds it in any
\* of its fields.
C11_NoInternalErrorText ==
  /\ \A i \in 1..Len(messages) :
       /\ messages[i].metadata.errorMessage \notin InternalErrorTexts
       /\ \A k \in 1..Len(messages[i].content) :
            messages[i].content[k] \notin InternalErrorTexts
  /\ \A p \in Procs : \A k \in 1..Len(proc[p].events) :
       /\ proc[p].events[k].error \notin InternalErrorTexts
       /\ proc[p].events[k].content # None =>
            \A j \in 1..Len(proc[p].events[k].content[1]) :
              proc[p].events[k].content[1][j] \notin InternalErrorTexts

\* What the caller of a relay operation is told at its end.
ReportsSuccess(p) ==
  \/ proc[p].op = "sendMessage" /\ proc[p].outcome = "returned"
  \/ /\ proc[p].op = "streamMessage"
     /\ \E k \in 1..Len(proc[p].events) :
          proc[p].events[k].type = "complete"
          /\ proc[p].events[k].carries = "assistantMessage"
ReportsError(p) ==
  \/ proc[p].outcome \in {"StoreError", "HttpException500"}
  \/ /\ proc[p].op = "streamMessage" /\ proc[p].events # <<>>
     /\ Last(proc[p].events).type = "error"
WriteRejected(p) ==
  \E k \in 1..Len(proc[p].storeErrors) : proc[p].storeErrors[k] = "message.create"

\* C12: a relay operation in which a message write was rejected ends with
\* an error told to its caller and not with success; and an operation that
\* reports success has its assistant message in the store.
C12_StoreFailureSurfaced ==
  \A p \in Procs :
    IsRelay(p)
    => /\ (proc[p].pc = "done" /\ WriteRejected(p))
            => (ReportsError(p) /\ ~ReportsSuccess(p))
       /\ ReportsSuccess(p)
            => /\ proc[p].assistantMessage # None
               /\ \E i \in 1..Len(messages) :
                    messages[i] = proc[p].assistantMessage[1]

\* The write of a streamed answer was rejected after the user message had
\* been written; the turn ended with an error event.
C12_Witness ==
  \E p \in Procs :
    /\ proc[p].op = "streamMessage" /\ proc[p].pc = "done"
    /\ WriteRejected(p) /\ proc[p].userMessage # None
    /\ proc[p].posts = 1 /\ proc[p].assistantMessage = None
    /\ Last(proc[p].events).type = "error"

\* The records that are not well-formed: no 'data: ' prefix, a payload that
\* does not parse, a type the switch does not know.
MalformedKinds == {"noPrefix", "badJson", "unknownType"}
Types(evs) == [i \in 1..Len(evs) |-> evs[i].type]
CurrentAcc(p) ==
  Acc(proc[p].buffer, proc[p].assistantContent, proc[p].thinkingTrace,
      proc[p].sources, <<>>)
HasTerminalComplete(p) ==
  \E k \in 1..Len(proc[p].events) :
    proc[p].events[k].type = "complete" /\ proc[p].events[k].carries = "assistantMessage"

\* C13: a malformed line yields no event and leaves every accumulator as it
\* was; the events yielded are, type for type and in order, those of the
\* well-formed records received (also of those that follow a malformed
\* one), the accumulated content is that of the yielded tokens, and an error
\* event is only ever caused by the transport or the store.
C13_MalformedLinesSkipped ==
  \A p \in Procs :
    InLoopOrAfter(p)
    => /\ \A kind \in MalformedKinds :
            processLine(CurrentAcc(p), LineText(kind)) = CurrentAcc(p)
       /\ Types(LoopEvents(p)) = Types(UpstreamEvents(p))
       /\ proc[p].assistantContent = ConcatContent(EventsOfType(p, "token"))
       /\ Len(proc[p].sources) = Len(EventsOfType(p, "source"))
       /\ EventsOfType(p, "error") # <<>>
            => proc[p].error \in {"aborted", StoreErrorMessage}

\* A body whose first record does not parse and whose second is a token:
\* the token was forwarded and persisted, the turn completed.
C13_Witness ==
  \E p \in Procs :
    /\ proc[p].op = "streamMessage" /\ proc[p].pc = "done"
    /\ proc[p].body = Body(<<"badJson", "tokenX">>, None)
    /\ Types(proc[p].events) = <<"complete", "token", "complete">>
    /\ proc[p].assistantMessage # None
    /\ proc[p].assistantMessage[1].content = <<"x">>

\* C14: a streaming turn whose transport failed while the body was read has
\* persisted no assistant message, and its last and only terminal event is
\* the error event with the fixed apology text.
C14_MidStreamFailureNotPersisted ==
  \A p \in Procs :
    (proc[p].op = "streamMessage" /\ proc[p].pc = "done" /\ proc[p].error = "aborted")
    => /\ proc[p].assistantMessage = None
       /\ CreatedRows(p, "ASSISTANT") = {}
       /\ Last(proc[p].events).type = "error"
       /\ Last(proc[p].events).content = Some(StreamApology)
       /\ Len(EventsOfType(p, "error")) = 1
       /\ ~HasTerminalComplete(p)

\* The transport failed after a token had been forwarded.
C14_Witness ==
  \E p \in Procs :
    /\ proc[p].op = "streamMessage" /\ proc[p].pc = "done" /\ proc[p].error = "aborted"
    /\ EventsOfType(p, "token") # <<>>
    /\ proc[p].assistantContent # <<>>
    /\ proc[p].received < Len(proc[p].bytes)

\* C15: in a streaming turn the assistant message is written once, before
\* the thread is updated, and the thread is updated before the terminal
\* complete is yielded; that event holds the id of the written row; and a
\* turn in which nothing failed ends with it.
C15_CompletionOrder ==
  \A p \in Procs :
    proc[p].op = "streamMessage"
    => /\ (proc[p].touches > 0 \/ proc[p].pc \in {"touch", "yieldComplete"})
            => /\ proc[p].assistantMessage # None
               /\ Cardinality(CreatedRows(p, "ASSISTANT")) = 1
               /\ \A i \in CreatedRows(p, "ASSISTANT") :
                    messages[i] = proc[p].assistantMessage[1]
       /\ proc[p].pc \in {"read", "saveAssistant", "touch"}
            => (proc[p].touches = 0 /\ ~HasTerminalComplete(p))
       /\ (HasTerminalComplete(p) \/ proc[p].pc = "yieldComplete")
            => /\ proc[p].touches = 1
               /\ threads[proc[p].threadId].updatedAt
                    >= proc[p].assistantMessage[1].createdAt
       /\ HasTerminalComplete(p)
            => /\ proc[p].pc = "done"
               /\ Last(proc[p].events).carries = "assistantMessage"
               /\ Last(proc[p].events).messageId = proc[p].assistantMessage[1].id
               /\ Len(EventsOfType(p, "complete")) = 2
       /\ (proc[p].pc = "done" /\ proc[p].posts = 1 /\ proc[p].error = "")
            => HasTerminalComplete(p)

\* A streamed answer with content was completed.
C15_Witness ==
  \E p \in Procs :
    /\ proc[p].op = "streamMessage" /\ proc[p].pc = "done"
    /\ HasTerminalComplete(p)
    /\ proc[p].assistantMessage[1].content # <<>>
    /\ threads[proc[p].threadId].updatedAt > 0

CountKinds(lines, kinds) == Cardinality({i \in 1..Len(lines) : lines[i] \in kinds})

\* C16: the loop is left only when the whole body has been delivered, never
\* because of a complete line; a turn in which nothing failed persists its
\* message and yields the terminal complete whether or not the body held a
\* complete line, and every token, thinking and source record of the body,
\* before or after a complete line, was forwarded and accumulated.
C16_CompleteLineAdvisory ==
  \A p \in Procs :
    (proc[p].op = "streamMessage" /\ proc[p].posts = 1)
    => /\ (proc[p].pc \in {"saveAssistant", "touch", "yieldComplete"}
             \/ proc[p].assistantMessage # None)
            => proc[p].received = Len(proc[p].bytes)
       /\ (proc[p].pc = "done" /\ proc[p].error = "")
            => /\ HasTerminalComplete(p)
               /\ \E i \in 1..Len(messages) : messages[i] = proc[p].assistantMessage[1]
               /\ Len(EventsOfType(p, "token"))
                    = CountKinds(proc[p].body.lines, {"tokenX", "tokenE"})
               /\ Len(EventsOfType(p, "thinking"))
                    = CountKinds(proc[p].body.lines, {"thinking", "thinking2"})
               /\ Len(proc[p].assistantMessage[1].sources)
                    = CountKinds(proc[p].body.lines, {"source"})

\* A completed turn whose body held a token record after a complete line.
C16_Witness ==
  \E p \in Procs :
    /\ proc[p].op = "streamMessage" /\ proc[p].pc = "done"
    /\ proc[p].body = Body(<<"complete", "tokenX">>, None)
    /\ HasTerminalComplete(p)
    /\ proc[p].assistantMessage[1].content = <<"x">>

\* C17: the first event of a streaming turn is the complete event that
\* carries the user message; when it is yielded that message is in the
\* store and the upstream call has not been made; and the upstream call is
\* never made before it.
C17_FirstEventIsUserMessage ==
  /\ [](\A p \in Procs :
         (proc[p].op = "streamMessage" /\ (proc[p].posts > 0 \/ proc[p].pc = "post"))
         => /\ proc[p].events # <<>>
            /\ proc[p].events[1].type = "complete"
            /\ proc[p].events[1].carries = "userMessage")
  /\ [][\A p \in Procs :
         (/\ proc[p].op = "streamMessage" /\ proc'[p].op = "streamMessage"
          /\ proc[p].events = <<>> /\ proc'[p].events # <<>>)
         => /\ proc[p].userMessage # None
            /\ \E i \in 1..Len(messages) :
                 messages[i] = proc[p].userMessage[1] /\ messages[i].role = "USER"
            /\ proc'[p].events =
                 <<Event("complete", None, None, proc[p].userMessage[1].id,
                         "userMessage", "")>>
            /\ proc[p].posts = 0 /\ proc'[p].posts = 0]_vars

\* The upstream streaming call was made after the user message event.
C17_Witness ==
  \E p \in Procs :
    /\ proc[p].op = "streamMessage" /\ proc[p].posts = 1
    /\ proc[p].events[1].carries = "userMessage"
    /\ \E i \in 1..Len(messages) :
         messages[i] = proc[p].userMessage[1]
         /\ messages[i].id = proc[p].events[1].messageId

\* C18: once the client of a streaming turn has gone away while the
\* upstream body was being read, the relay takes no further chunk from the
\* upstream and does not run the stream to its end: the bytes consumed stay
\* what they were at the disconnect, and a turn disconnected with part of
\* the body outstanding never writes its message.
C18_DisconnectAbortsUpstream ==
  \A p \in Procs :
    (/\ proc[p].op = "streamMessage" /\ proc[p].disconnectedAt # None
     /\ proc[p].disconnectedAt[1].pc = "read")
    => /\ proc[p].received = proc[p].disconnectedAt[1].received
       /\ proc[p].disconnectedAt[1].received < Len(proc[p].bytes)
            => proc[p].assistantMessage = None

\* C19: every relay request of the thread's owner that has started ends.
C19_EveryRelayFinishes ==
  \A p \in Procs :
    (IsRelay(p) /\ proc[p].pc = "validate"
       /\ OwnsThread(proc[p].userId, proc[p].threadId))
    ~> (proc[p].pc = "done")

\* What the caller of an ended request can see of it.
Visible(pr) ==
  [pc |-> pr.pc, outcome |-> pr.outcome, events |-> pr.events, rows |-> pr.history,
   userMessage |-> pr.userMessage, assistantMessage |-> pr.assistantMessage]

\* C20: of two requests of the same operation by the same caller, one on a
\* thread of another user and one on the id of no thread, both past their
\* ownership check, the caller sees the same: both have ended with the
\* not-found error, and the store is as it was.
C20_DenialHidesExistence ==
  \A p, q \in Procs :
    (/\ proc[p].op = proc[q].op /\ proc[p].userId = proc[q].userId
     /\ proc[p].threadId \in DOMAIN threads
     /\ ~OwnsThread(proc[p].userId, proc[p].threadId)
     /\ proc[q].threadId \notin DOMAIN threads
     /\ proc[p].pc # "validate" /\ proc[q].pc # "validate")
    => /\ Visible(proc[p]) = Visible(proc[q])
       /\ proc[p].outcome = "NotFoundException"
       /\ proc[p].posts = 0 /\ proc[q].posts = 0
       /\ messages \in {<<>>, SeedMessages}
       /\ \A t \in DOMAIN threads : threads[t].updatedAt = 0

\* u1's streamMessage on u2's thread and on the id of no thread have both
\* been answered.
C20_Witness ==
  \E p, q \in Procs :
    /\ proc[p].op = "streamMessage" /\ proc[q].op = "streamMessage"
    /\ proc[p].userId = "u1" /\ proc[q].userId = "u1"
    /\ proc[p].threadId = "t2" /\ proc[q].threadId = "t3"
    /\ proc[p].pc = "done" /\ proc[q].pc = "done"
    /\ messages = SeedMessages

\* The rows of the table that carry the given id.
RowsWithId(id) == {i \in 1..Len(messages) : messages[i].id = id}

\* C21: two turns on the same thread by its owner, interleaved in every way.
\* Neither blocks the other: a turn that has not ended can always take its
\* next step, whatever the other one is doing. No row is lost or overwritten:
\* every row a turn has created is in the table, once, and the user row and
\* the assistant row the turn holds are in the table as they were written.
\* When both turns have returned, the thread holds two USER rows and two
\* ASSISTANT rows, one of each from each turn.
C21_ConcurrentTurnsKeepAllRows ==
  /\ \A p \in Procs :
       /\ proc[p].pc # "done" => ENABLED SendStep(p)
       /\ \A k \in 1..Len(proc[p].created) :
            /\ Cardinality(RowsWithId(proc[p].created[k])) = 1
            /\ \A q \in Procs \ {p} :
                 \A j \in 1..Len(proc[q].created) : proc[q].created[j] # proc[p].created[k]
       /\ proc[p].userMessage # None =>
            \E i \in 1..Len(messages) : messages[i] = proc[p].userMessage[1]
       /\ proc[p].assistantMessage # None =>
            \E i \in 1..Len(messages) : messages[i] = proc[p].assistantMessage[1]
  /\ (\A p \in Procs : proc[p].outcome = "returned") =>
       /\ \A p \in Procs : /\ Cardinality(CreatedRows(p, "USER")) = 1
                           /\ Cardinality(CreatedRows(p, "ASSISTANT")) = 1
       /\ Cardinality({i \in 1..Len(messages) :
                         messages[i].threadId = "t1" /\ messages[i].role = "USER"}) = 2
       /\ Cardinality({i \in 1..Len(messages) :
                         messages[i].threadId = "t1" /\ messages[i].role = "ASSISTANT"}) = 2

\* Both turns have returned, and the second turn's user row was written
\* between the first turn's user row and the first turn's assistant row.
C21_Witness ==
  /\ \A p \in Procs : proc[p].outcome = "returned"
  /\ Len(messages) = 4
  /\ messages[1].role = "USER" /\ messages[2].role = "USER"
  /\ messages[3].role = "ASSISTANT" /\ messages[4].role = "ASSISTANT"

\* The rows of the table a sweep started at the given instant is to delete:
\* the CONVERSATION rows created more than RetentionDays days of
\* HoursPerDay hours before it.
PastHorizon(m, start) ==
  m.type = "CONVERSATION" /\ m.createdAt < start - RetentionDays * HoursPerDay

\* C22: a sweep the store has answered deleted all and only the CONVERSATION
\* rows created strictly before its start minus 30 days, and left every other
\* row of the table as it was; a second sweep started at the same instant as
\* a first one the store answered deletes no row.
C22_SweepDeletesExactlyPastHorizon ==
  (mproc.sweepPc = "done" /\ ~mproc.sweepFailed) =>
    /\ mproc.deleted =
         SelectSeq(mproc.sweepBefore, LAMBDA m : PastHorizon(m, mproc.sweepStart))
    /\ \A i \in 1..Len(mproc.sweepBefore) :
         ~PastHorizon(mproc.sweepBefore[i], mproc.sweepStart)
           => \E j \in 1..Len(memories) : memories[j] = mproc.sweepBefore[i]
    /\ (mproc.prevOk /\ mproc.prevStart = mproc.sweepStart) => mproc.deleted = <<>>

\* C23: whatever the interleaving of the sweep's steps with the writes, no
\* step of the memory service removes a record created while the current
\* sweep was running, and no step removes a record of type FACT, INSIGHT or
\* DOCUMENT: each such row of the table is in the table after the step.
C23_SweepSparesNewAndOtherTypes ==
  [][\A i \in 1..Len(memories) :
       (memories[i].type # "CONVERSATION" \/ memories[i].id \in mproc.during)
         => \E j \in 1..Len(memories') : memories'[j] = memories[i]]_vars

\* A sweep has deleted rows while a CONVERSATION record written between its
\* two steps, and the old FACT, INSIGHT and DOCUMENT records, are still there.
C23_Witness ==
  /\ mproc.sweepPc = "done" /\ mproc.deleted # <<>>
  /\ \E i \in 1..Len(memories) :
       memories[i].id \in mproc.during /\ memories[i].type = "CONVERSATION"
  /\ \A t \in {"FACT", "INSIGHT", "DOCUMENT"} :
       \E i \in 1..Len(memories) :
         memories[i].type = t /\ memories[i].createdAt < mproc.cutoffDate

\* C25: the caller of the short-term cache never sees an error.  A
\* getShortTermMemory has returned, and has returned null when the key was
\* not set, when its entry had expired, and when the backend refused the
\* read; a storeShortTermMemory has returned, the backend having refused the
\* write or not.
C25_CacheNeverRaises ==
  /\ mproc.op = "getShortTermMemory" =>
       /\ mproc.outcome = "returned"
       /\ mproc.value # None
       /\ (\/ redis[mproc.key] = None
           \/ redis[mproc.key][1].expiresAt <= mproc.at
           \/ mproc.storeFailed) => mproc.value = Some(JsNull)
  /\ mproc.op = "storeShortTermMemory" => mproc.outcome = "returned"

\* A key was read after its entry had expired: the backend answered, and
\* the caller got null.
C25_Witness ==
  /\ mproc.op = "getShortTermMemory" /\ ~mproc.storeFailed
  /\ redis[mproc.key] # None
  /\ redis[mproc.key][1].expiresAt <= mproc.at
  /\ mproc.value = Some(JsNull)
  /\ mproc.outcome = "returned"

\* C26: a storeLongTermMemory whose create the store refuses throws to its
\* caller, hands back no record, and leaves the table as it was.
C26_StoreFailurePropagates ==
  [][(/\ mproc'.calls = mproc.calls + 1
      /\ mproc'.op = "storeLongTermMemory"
      /\ mproc'.storeFailed)
     => /\ mproc'.outcome = "threw"
        /\ mproc'.record = None
        /\ memories' = memories]_vars

\* The store has refused a create on a table that holds records.
C26_Witness ==
  /\ mproc.op = "storeLongTermMemory" /\ mproc.storeFailed
  /\ mproc.outcome = "threw"
  /\ memories # <<>> /\ memories = mproc.before

\* The records of the table that searchMemories(userId, query) is to find:
\* those of userId with a stretch of content equal to query, letter case
\* aside.
Wanted(m, userId, query) ==
  /\ m.userId = userId
  /\ \E i \in 1..(Len(m.content) - Len(query) + 1) :
       \A k \in 1..Len(query) : toLowerCase(m.content[i + k - 1]) = toLowerCase(query[k])

\* C27: a searchMemories the store has answered returned records of the
\* table, each once, each owned by userId and containing the query letter
\* case aside, newest first, as many as there are such records up to limit,
\* and no such record left out is newer than one returned.
C27_SearchNewestOwnMatches ==
  (mproc.op = "searchMemories" /\ ~mproc.storeFailed) =>
    LET found  == mproc.rows
        table  == mproc.before
        wanted == {i \in 1..Len(table) : Wanted(table[i], mproc.userId, mproc.query)}
    IN  /\ \A i \in 1..Len(found) :
             /\ \E j \in wanted : table[j] = found[i]
             /\ found[i].userId = mproc.userId
             /\ \A k \in 1..Len(found) : k # i => found[k].id # found[i].id
        /\ \A i \in 1..(Len(found) - 1) : found[i].createdAt >= found[i + 1].createdAt
        /\ Len(found) = IF Cardinality(wanted) < mproc.limit THEN Cardinality(wanted)
                        ELSE mproc.limit
        /\ \A j \in wanted :
             (\A i \in 1..Len(found) : found[i] # table[j])
               => \A i \in 1..Len(found) : table[j].createdAt <= found[i].createdAt

\* A search for "A" found limit records of its user, among them one whose
\* content has "a"; the user has more matching records than limit, and the
\* other user has a matching record too.
C27_Witness ==
  /\ mproc.op = "searchMemories" /\ ~mproc.storeFailed
  /\ mproc.query = <<"A">>
  /\ Len(mproc.rows) = mproc.limit
  /\ \E i \in 1..Len(mproc.rows) : mproc.rows[i].content = <<"a", "B">>
  /\ Cardinality({i \in 1..Len(mproc.before) :
                    Wanted(mproc.before[i], mproc.userId, mproc.query)}) > mproc.limit
  /\ \E i \in 1..Len(mproc.before) :
       /\ mproc.before[i].userId # mproc.userId
       /\ Wanted(mproc.before[i], "u1", mproc.query) \/ Wanted(mproc.before[i], "u2", mproc.query)

\* C24: a history read of a thread with a limit returns rows of that thread
\* as the table holds them, sources included, each once, oldest first, as
\* many as the thread has up to limit, and no row of the thread left out is
\* newer than one returned.
C24_HistoryIsNewestInOrder ==
  \A p \in Procs :
    (proc[p].op = "getConversationHistory" /\ proc[p].pc = "done") =>
      LET h      == proc[p].history
          thread == {i \in 1..Len(messages) : messages[i].threadId = proc[p].threadId}
      IN  /\ \A i \in 1..Len(h) :
               /\ \E j \in thread : messages[j] = h[i]
               /\ \A k \in 1..Len(h) : k # i => h[k].id # h[i].id
          /\ \A i \in 1..(Len(h) - 1) : h[i].createdAt <= h[i + 1].createdAt
          /\ Len(h) = IF Cardinality(thread) < proc[p].limit THEN Cardinality(thread)
                      ELSE proc[p].limit
          /\ \A j \in thread :
               (\A i \in 1..Len(h) : h[i] # messages[j])
                 => \A i \in 1..Len(h) : messages[j].createdAt <= h[i].createdAt

\* A read with limit 2 of a thread of three rows returned the two newest,
\* the older first, one of them with its source, and left out the oldest.
C24_Witness ==
  /\ proc[1].op = "getConversationHistory" /\ proc[1].pc = "done"
  /\ proc[1].limit = 2 /\ Len(proc[1].history) = 2
  /\ Cardinality({i \in 1..Len(messages) : messages[i].threadId = "t1"}) = 3
  /\ proc[1].history[1].createdAt < proc[1].history[2].createdAt
  /\ \E i \in 1..2 : proc[1].history[i].sources # <<>>
  /\ \E j \in 1..Len(messages) :
       messages[j].threadId = "t1" /\ messages[j].createdAt < proc[1].history[1].createdAt

\* Every row of the table is, after the step, the row it was, at its place.
MessagesKept ==
  /\ Len(messages') >= Len(messages)
  /\ \A i \in 1..Len(messages) : messages'[i] = messages[i]

\* The turn in slot p has ended after its upstream call failed, the store
\* having refused nothing.
FailedTurn(p) ==
  IsRelay(p) /\ proc[p].pc = "done" /\ UpstreamFailed(p) /\ faults = 0

\* The failed turn in slot p is on record: an ASSISTANT row of its own marks
\* the failure, and its user row is in the table as it was created.
FailureRecorded(p) ==
  /\ \E i \in CreatedRows(p, "ASSISTANT") : messages[i].metadata.error
  /\ proc[p].userMessage # None
  /\ \E i \in CreatedRows(p, "USER") : messages[i] = proc[p].userMessage[1]

\* C28: no step of sendMessage, streamMessage or getThreadMessages changes or
\* removes a row of the message table, so the rows of a thread only grow; and
\* a step that ends a failed turn leaves it recorded by a new ASSISTANT row,
\* the user's row of the turn unchanged.
C28_MessagesImmutable ==
  [][/\ MessagesKept
     /\ \A p \in Procs : (~FailedTurn(p) /\ FailedTurn(p)') => FailureRecorded(p)']_vars

\* The slot p takes a step of a call of the threads service.
TS_Steps(p) == proc[p].pc \in {"find", "write"} /\ proc'[p] # proc[p]

\* C29: a thread is seen and changed by its owner only.  The ownership
\* lookup of findOne, update and remove by a caller who does not own the
\* thread, the store answering, ends the call with not-found and hands back
\* nothing; no step of a call by a caller who does not own its thread changes
\* the threads (their titles with them) or the messages; and every thread a
\* call hands back, findAll's lists included, is owned by its caller.
C29_ThreadsOwnerOnly ==
  [][\A p \in Procs :
       TS_Steps(p) =>
         /\ (/\ proc[p].op \in {"findOne", "update", "remove"}
             /\ ~OwnsThread(proc[p].userId, proc[p].threadId))
            => /\ threads' = threads /\ messages' = messages
               /\ proc'[p].result = None
               /\ (proc[p].pc = "find" /\ proc'[p].storeErrors = proc[p].storeErrors)
                    => (proc'[p].pc = "done" /\ proc'[p].outcome = "NotFoundException")
         /\ proc'[p].result # None =>
              \A i \in 1..Len(proc'[p].result[1]) :
                proc'[p].result[1][i].userId = proc[p].userId]_vars

\* u2's remove of u1's thread t1 has ended with not-found, t1 and its two
\* messages being where they were, and u1 has listed its two threads.
C29_Witness ==
  \E p, q \in Procs :
    /\ proc[p].op = "remove" /\ proc[p].userId = "u2" /\ proc[p].threadId = "t1"
    /\ proc[p].outcome = "NotFoundException"
    /\ "t1" \in DOMAIN threads /\ Len(ThreadMessages(messages, "t1")) = 2
    /\ proc[q].op = "findAll" /\ proc[q].userId = "u1" /\ proc[q].result # None
    /\ Len(proc[q].result[1]) = 2

\* The types of StreamingResponse, and the kinds of upstream record that
\* carry each forwarded type.
StreamingTypes == {"token", "thinking", "source", "complete", "error"}
KindsOfType(type) ==
  CASE type = "token"    -> {"tokenX", "tokenE"}
    [] type = "thinking" -> {"thinking", "thinking2"}
    [] type = "source"   -> {"source"}

\* C30: every event streamMessage yields has one of the five types of
\* StreamingResponse, and the events of type token, thinking and source are
\* as many as the upstream records of that type received: a record of any
\* other type has added no event.
C30_EventTypesClosed ==
  \A p \in Procs :
    proc[p].op = "streamMessage" =>
      /\ \A k \in 1..Len(proc[p].events) : proc[p].events[k].type \in StreamingTypes
      /\ InLoopOrAfter(p) =>
           \A type \in {"token", "thinking", "source"} :
             Len(EventsOfType(p, type)) =
               Cardinality({i \in 1..LinesDelivered(p) :
                              proc[p].body.lines[i] \in KindsOfType(type)})

\* A turn whose body was a record of an unknown type followed by a token has
\* completed, the token its only forwarded event.
C30_Witness ==
  \E p \in Procs :
    /\ proc[p].op = "streamMessage" /\ proc[p].pc = "done"
    /\ proc[p].body = Body(<<"unknownType", "tokenX">>, None)
    /\ Types(proc[p].events) = <<"complete", "token", "complete">>

\* C31: sources come into being only with an ASSISTANT message, in the write
\* that creates it.  After every step each row that has sources is an
\* ASSISTANT row that is not an error message, the sources of a row that was
\* there before the step are what they were, and no two rows share an id (a
\* source, held by its row, belongs to that one message); USER rows and
\* error messages have no sources.
C31_SourcesOnlyWithAssistant ==
  [][\A i \in 1..Len(messages') :
       /\ messages'[i].sources # <<>> =>
            (messages'[i].role = "ASSISTANT" /\ ~messages'[i].metadata.error)
       /\ i <= Len(messages) => messages'[i].sources = messages[i].sources
       /\ \A j \in 1..Len(messages') : j # i => messages'[j].id # messages'[i].id]_vars

\* A sendMessage turn has stored the agent's answer with its sources, next to
\* its user message, which has none.
C31_Witness ==
  \E p \in Procs :
    /\ proc[p].op = "sendMessage" /\ proc[p].assistantMessage # None
    /\ proc[p].assistantMessage[1].sources # <<>>
    /\ \E i \in CreatedRows(p, "ASSISTANT") :
         messages[i].sources = proc[p].assistantMessage[1].sources
    /\ \E i \in CreatedRows(p, "USER") : messages[i].sources = <<>>

\* C32: the history read is a function of the persisted messages.  Two
\* concurrent turns that have each read the history of their thread when it
\* held the very rows it holds now (the table only grows, and each read
\* returned as many rows as the table has) have read the same sequence, also
\* when rows carry the same creation timestamp.
C32_HistoryStable ==
  \A p, q \in Procs :
    (/\ proc[p].pc = "post" /\ proc[q].pc = "post"
     /\ proc[p].threadId = proc[q].threadId
     /\ Len(proc[p].history) = Len(ThreadMessages(messages, proc[p].threadId))
     /\ Len(proc[q].history) = Len(ThreadMessages(messages, proc[q].threadId)))
    => proc[p].history = proc[q].history

\* C33: a streamMessage turn that has yielded an error event has persisted
\* no ASSISTANT message.
C33_ErrorEventMeansNothingStored ==
  \A p \in Procs :
    (proc[p].op = "streamMessage" /\ EventsOfType(p, "error") # <<>>)
    => /\ CreatedRows(p, "ASSISTANT") = {}
       /\ proc[p].assistantMessage = None

\* C34: a sendMessage turn has persisted the error-marked apology only when
\* its upstream call failed: a turn whose upstream call was answered has
\* created no error-marked row, whatever failed afterwards.
C34_ApologyOnlyOnUpstreamFailure ==
  \A p \in Procs :
    (proc[p].op = "sendMessage" /\ proc[p].agentResponse # None)
    => \A i \in CreatedRows(p, "ASSISTANT") :
         ~messages[i].metadata.error /\ messages[i].content # SendApology

\* C35: when the body has ended with a record that has no newline, that
\* record is dropped.  Past the loop it is still in the line buffer, no event
\* was yielded for it (the token events are as many as the terminated token
\* records), the accumulated content is that of the yielded tokens and the
\* accumulated sources are those of the terminated source records; and the
\* ASSISTANT message stored holds just that content and those sources.
C35_UnterminatedTailDiscarded ==
  \A p \in Procs :
    (/\ proc[p].op = "streamMessage" /\ proc[p].body.tail # None
     /\ \/ proc[p].pc \in {"saveAssistant", "touch", "yieldComplete"}
        \/ proc[p].assistantMessage # None)
    => /\ proc[p].buffer = LineText(proc[p].body.tail[1])
       /\ Len(EventsOfType(p, "token")) = CountKinds(proc[p].body.lines, {"tokenX", "tokenE"})
       /\ Len(EventsOfType(p, "thinking"))
            = CountKinds(proc[p].body.lines, {"thinking", "thinking2"})
       /\ Len(EventsOfType(p, "source")) = CountKinds(proc[p].body.lines, {"source"})
       /\ proc[p].assistantContent = ConcatContent(EventsOfType(p, "token"))
       /\ Len(proc[p].sources) = CountKinds(proc[p].body.lines, {"source"})
       /\ proc[p].assistantMessage # None =>
            /\ proc[p].assistantMessage[1].content = proc[p].assistantContent
            /\ Len(proc[p].assistantMessage[1].sources) = Len(proc[p].sources)
            /\ CountKinds(proc[p].body.lines, {"thinking", "thinking2"}) = 0
                 => proc[p].assistantMessage[1].thinkingTrace
                      = streamThinkingTrace(None)

\* A turn has completed whose body was a terminated token record followed by
\* a token record without newline: one token event, and the message stored
\* has the first token's text only.
C35_Witness ==
  \E p \in Procs :
    /\ proc[p].op = "streamMessage" /\ proc[p].pc = "done"
    /\ proc[p].body = Body(<<"tokenX">>, Some("tokenX"))
    /\ Types(proc[p].events) = <<"complete", "token", "complete">>
    /\ proc[p].assistantMessage # None
    /\ proc[p].assistantMessage[1].content = <<"x">>

\* C36: in creation order every ASSISTANT row (the answer or the apology) a
\* turn has created comes after the USER row of that same turn, however the
\* steps of concurrent turns on the thread interleave.
C36_UserRowBeforeAssistantRow ==
  \A p \in Procs :
    \A i \in CreatedRows(p, "ASSISTANT") :
      \E j \in CreatedRows(p, "USER") :
        /\ j < i
        /\ messages[j].id < messages[i].id
        /\ messages[j].createdAt <= messages[i].createdAt
        /\ messages[j].threadId = messages[i].threadId

\* Two turns interleaved: the rows are the first turn's user row, the second
\* turn's user row, the second turn's assistant row, the first turn's
\* assistant row.
C36_Witness ==
  /\ Len(messages) = 4
  /\ CreatedRows(1, "USER") = {1} /\ CreatedRows(2, "USER") = {2}
  /\ CreatedRows(2, "ASSISTANT") = {3} /\ CreatedRows(1, "ASSISTANT") = {4}

\* C37: a turn that has read its history, nothing having been appended since
\* it stored its user message (that message is still the last row of the
\* table), holds a history whose last entry is that user message: the
\* message goes upstream twice, as `message` and as the end of
\* conversationHistory.
C37_HistoryEndsWithCurrentMessage ==
  \A p \in Procs :
    (/\ IsRelay(p) /\ proc[p].pc = "post"
     /\ proc[p].userMessage # None
     /\ messages # <<>> /\ Last(messages) = proc[p].userMessage[1])
    => /\ proc[p].history # <<>>
       /\ Last(proc[p].history) = proc[p].userMessage[1]

\* C38: the controller ends the client stream with complete only when the
\* generator finished, and then it has forwarded every event the generator
\* yielded, in order, a last error event included; it ends the client stream
\* with error only when the generator threw, and then every event yielded
\* before the throw has been forwarded, in order; and at no time has it
\* forwarded anything but the events yielded, in their order.
C38_ControllerEndsAsGeneratorDoes ==
  \A p \in Procs :
    LET forwardedAll ==
          proc[p].forwarded = [i \in 1..Len(proc[p].events) |->
                                 MessageEventOf(proc[p].events[i])]
    IN  /\ proc[p].observer = "complete" =>
             (proc[p].pc = "done" /\ proc[p].outcome = "returned" /\ forwardedAll)
        /\ proc[p].observer = "error" =>
             (/\ proc[p].pc = "done"
              /\ proc[p].outcome \in {"NotFoundException", "StoreError"}
              /\ forwardedAll)
        /\ proc[p].observer = "open" =>
             /\ Len(proc[p].forwarded) <= Len(proc[p].events)
             /\ \A i \in 1..Len(proc[p].forwarded) :
                  proc[p].forwarded[i] = MessageEventOf(proc[p].events[i])

\* The client stream has ended with complete after a turn whose last event,
\* forwarded like the others, was the error event.
C38_Witness ==
  \E p \in Procs :
    /\ proc[p].observer = "complete"
    /\ Len(proc[p].forwarded) = 2
    /\ Types(proc[p].events) = <<"complete", "error">>
    /\ proc[p].forwarded[2] = MessageEventOf(Last(proc[p].events))

====
